---- MODULE Spec2Model ----
(***************************************************************************)
(* Job lifecycle and synchronized clip playback of ClipsExtractor.         *)
(*                                                                         *)
(* The parts of the repository are modelled each with its own              *)
(* specification over the variables it owns:                               *)
(*   SpecMapper  - calculateClipPositionsInOutput (JobStatus component)    *)
(*   SpecPlayer  - playClip / playFullVideo on the shared <video> element  *)
(*   SpecHook    - the useJobStatus polling hook of the web page           *)
(*   SpecClips   - the extension (content script, popup, chrome.storage),  *)
(*                 one submission, any response of the service             *)
(*   SpecExt     - the extension, two submissions for the same video       *)
(*   SpecLoad    - the extension with the content script's page-load step  *)
(*   SpecSeek    - the popup's clip list and the seek on the page          *)
(*   SpecTabs    - the extension with a second tab on another video        *)
(*   SpecTeardown - the player with the unmount of its view                *)
(* SpecPoll runs either client (web page or extension).                    *)
(***************************************************************************)
EXTENDS Integers, Sequences, FiniteSets, TLC

VARIABLES
    \* ---- clip timeline mapper ----
    clips,          \* data.clips handed to calculateClipPositionsInOutput
    clipPositions,  \* the positions the last call returned
    mapped,         \* TRUE once calculateClipPositionsInOutput has run on clips
    \* ---- playback controller: the <video> element and the component state ----
    selectedClipIndex,   \* 0 stands for null (full video), else the 1-based clip index
    paused,              \* video.paused
    currentTime,         \* video.currentTime
    loadState,           \* "loading" after load(), "metadata" after loadedmetadata, "ready" after canplay
    timeupdateListeners, \* the clip-end guards attached for 'timeupdate'
    clipEndHandler,      \* video._clipEndHandler
    canplayListeners,    \* the handlers attached for 'canplay'
    canPlayHandler,      \* video._canPlayHandler
    metadataListeners,   \* the once-listeners attached for 'loadedmetadata', in order
    switchLog,           \* the mode switches made so far (0 = full video, i = clip i)
    lastTimeUpdate,      \* currentTime at the last 'timeupdate' event, -1 before the first
    viewMounted,         \* the JobStatus view that owns the element is mounted
    canPlayRuns,         \* per mode switch: how often its handleCanPlay has run
    metadataBatch,       \* how many once-listeners the last 'loadedmetadata' ran
    \* ---- web page: useJobStatus ----
    currentJobId,          \* page.tsx currentJobId, 0 stands for null
    stopPollingOnComplete, \* the hook's option
    isActive,              \* isActive of the effect that is mounted
    intervalId,            \* TRUE while the effect's setInterval is armed
    effectId,              \* counts the effects run so far (a closure per effect)
    pollsIssued,           \* getJobStatus calls the mounted effect has made
    inflight,              \* getJobStatus calls that have not resolved yet
    serverJobs,            \* the service's status of every job
    data,                  \* useState data
    error,                 \* useState error
    loading,               \* useState loading
    terminalSeen,          \* effects that have handled a completed/failed response
    \* ---- extension: chrome.storage.local ----
    rec,          \* the value stored under the videoId key
    promptKey,    \* the value stored under prompt_<videoId>
    timeoutKey,   \* the value stored under timeout_<videoId>, 0 when absent
    jobKeys,      \* the job_<jobId> entries: {jobId, prompt}
    \* ---- extension: content script ----
    extractions,  \* the extractClips calls in progress
    polls,        \* per job: where its pollJobStatus chain stands
    activePolls,  \* activePolls.get(videoId): the job whose timer is kept, 0 when none
    jobsCreated,  \* jobs the service has created
    toPopup,      \* chrome.runtime messages on their way to the popup
    \* ---- extension: popup ----
    popupOpen,    \* TRUE while a popup document exists
    ui,           \* what the popup shows
    tasks,        \* the popup's pending continuations (awaits and storage callbacks)
    timers,       \* the popup's armed staleness timers
    nextTimerId,  \* the id the popup's next setTimeout returns
    submissions,  \* Extract clicks made so far
    now,          \* Date.now(), in staleness windows
    toContent,    \* seekTo messages of the popup on their way to the content script
    pageVideo,    \* the page's video element: currentTime and paused
    otherTab      \* another tab's video: its stored keys and its extractClips call

mapVars == <<clips, clipPositions, mapped>>

playerVars == <<selectedClipIndex, paused, currentTime, loadState, timeupdateListeners,
                clipEndHandler, canplayListeners, canPlayHandler, metadataListeners,
                switchLog, lastTimeUpdate, viewMounted, canPlayRuns, metadataBatch>>

hookVars == <<currentJobId, stopPollingOnComplete, isActive, intervalId, effectId,
              pollsIssued, inflight, serverJobs, data, error, loading, terminalSeen>>

storeVars == <<rec, promptKey, timeoutKey, jobKeys>>

contentVars == <<extractions, polls, activePolls, jobsCreated>>

popupVars == <<popupOpen, ui, tasks, timers, nextTimerId, submissions>>

pageVars == <<toContent, pageVideo>>

extVars == <<storeVars, contentVars, toPopup, popupVars, now, pageVars, otherTab>>

vars == <<mapVars, playerVars, hookVars, extVars>>

\* ------------------------------------------------------------------------
\* Bounds
\* ------------------------------------------------------------------------
MaxClips == 3

\* playback controller: clips of the played job, mode switches, length of the output video
MaxPlayerClips == 2
MaxClipTime == 2
MaxSwitches == 3
VideoDuration == 4

\* web page: jobs submitted, polls one effect may issue
MaxWebJobs == 2
MaxPolls == 2

\* extension: Extract clicks (each creates at most one job), clock ticks
MaxJobs == 2
MaxTicks == 1

\* seekTo messages in flight, and clip items a popup shows
MaxSeeks == 2
MaxShownClips == 2

\* the staleness window (15000 ms) is the unit of the clock
StaleTicks == 1

\* start_time / end_time values of the clips handed to the mapper
ClipTimes == {0, 10, 20, 25}

\* ------------------------------------------------------------------------
\* Clip timeline mapper (JobStatus component)
\* ------------------------------------------------------------------------
Clip(s, e) == [start_time |-> s, end_time |-> e]

ClipLists(times, maxLen) ==
    UNION { [1..n -> {Clip(s, e) : s \in times, e \in times}] : n \in 0..maxLen }

\* a faulty variant: the clip's source end is taken for its duration
ClipDuration_EndOnly(clip) == clip.end_time

\* const duration = clip.end_time - clip.start_time
ClipDuration(clip) == clip.end_time - clip.start_time

\* the forEach loop: positions.push({start, end, duration}); currentPosition += duration
RECURSIVE PositionsFrom(_, _, _)
PositionsFrom(cs, i, currentPosition) ==
    IF i > Len(cs) THEN <<>>
    ELSE LET duration == ClipDuration(cs[i]) IN
         <<[start |-> currentPosition,
            end |-> currentPosition + duration,
            duration |-> duration]>>
         \o PositionsFrom(cs, i + 1, currentPosition + duration)

\* a faulty variant: the clips keep their positions of the source video
PositionsInSource(cs) ==
    [i \in 1..Len(cs) |-> [start |-> cs[i].start_time, end |-> cs[i].end_time,
                           duration |-> cs[i].end_time - cs[i].start_time]]

calculateClipPositionsInOutput(cs) == PositionsFrom(cs, 1, 0)

\* ------------------------------------------------------------------------
\* Job API as the web page sees it
\* ------------------------------------------------------------------------
NoData == [job |-> 0, status |-> "none"]

IsTerminal(status) == status \in {"completed", "failed"}

\* a faulty variant: the interval is never cleared
ShouldStopPolling_Never(stop, status) == FALSE

\* if (stopPollingOnComplete && (jobData.status === 'completed' ||
\* jobData.status === 'failed')) clearInterval(intervalId)
ShouldStopPolling(stop, status) == stop /\ IsTerminal(status)

\* ------------------------------------------------------------------------
\* Playback controller (JobStatus component: playClip, playFullVideo)
\* ------------------------------------------------------------------------
NoHandler == [id |-> 0]

\* a seek is clamped to the media's range
Seek(t) == IF t < 0 THEN 0 ELSE IF t > VideoDuration THEN VideoDuration ELSE t

\* setting currentTime right after a reload may not take effect: the position the
\* element reports afterwards is the target or still the start of the media
SeekOutcomes(t) == {Seek(t), 0}

\* a faulty variant: the previous guard stays attached
DetachClipEndHandler_Keeps(listeners, handler) == listeners

\* if (videoRef.current._clipEndHandler) { removeEventListener('timeupdate', ...); delete ... }
DetachClipEndHandler(listeners, handler) ==
    IF handler # NoHandler THEN listeners \ {handler} ELSE listeners

\* a faulty variant: the guard pauses only past the end
ClipEndReached_Past(h, t) == t > h.end

\* handleClipEnd: if (video.currentTime >= outputEndTime) video.pause()
ClipEndReached(h, t) == t >= h.end

\* handleCanPlay: Math.abs(videoElement.currentTime - outputStartTime) < 0.5
\* (playFullVideo: videoElement.currentTime < 0.5); positions are whole seconds here
SeekSucceeded(h, t) ==
    IF h.clip = 0 THEN t < 1 ELSE (t - h.start < 1) /\ (h.start - t < 1)

\* ------------------------------------------------------------------------
\* Extension: JavaScript values, stored records, messages
\* ------------------------------------------------------------------------
\* JavaScript values of the clips payload, tagged with their typeof / shape
Undefined == [t |-> "undefined"]
Null == [t |-> "null"]
Num(n) == [t |-> "number", v |-> n]
Str(x) == [t |-> "string", v |-> x]
Arr(items) == [t |-> "array", v |-> items]
Obj(fields) == [t |-> "object", v |-> fields]

Truthy(x) ==
    CASE x.t \in {"undefined", "null"} -> FALSE
      [] x.t = "number" -> x.v # 0
      [] x.t = "string" -> x.v # ""
      [] OTHER -> TRUE

IsArray(x) == x.t = "array"

\* a clip as the service documents it, and one whose fields have other types
GoodClip == Obj([start_time |-> Num(5), end_time |-> Num(9), text |-> Str("topic")])
LooseClip == Obj([start_time |-> Str("5"), end_time |-> Undefined, text |-> Num(7)])
DefaultClip == Obj([start_time |-> Num(0), end_time |-> Num(0),
                    text |-> Str("No text available")])

GoodClipsJson == "[{\"start_time\":5,\"end_time\":9,\"text\":\"topic\"}]"

\* JSON.parse on the strings of the model: the value, or a SyntaxError
JSONparse(x) ==
    CASE x = GoodClipsJson -> [ok |-> TRUE, value |-> Arr(<<GoodClip>>)]
      [] x = "[]" -> [ok |-> TRUE, value |-> Arr(<<>>)]
      [] x = "[7]" -> [ok |-> TRUE, value |-> Arr(<<Num(7)>>)]
      [] x = "null" -> [ok |-> TRUE, value |-> Null]
      [] OTHER -> [ok |-> FALSE, value |-> Undefined]

\* the clips field of a completed job snapshot, as the service may deliver it
ClipsPayloads ==
    { Undefined,
      Arr(<<GoodClip>>),
      Arr(<<LooseClip>>),
      Arr(<<Null>>),
      Str(GoodClipsJson),
      Str("[7]"),
      Str("null"),
      Str("not json") }

\* reading clip.start_time etc. of an element: a TypeError on null and undefined
ThrowsOnPropertyRead(x) == x.t \in {"undefined", "null"}

Field(x, name) == IF x.t = "object" THEN x.v[name] ELSE Undefined

\* the callback of data.clips.map(...)
NormalizeClip(clip) ==
    LET st == Field(clip, "start_time")
        en == Field(clip, "end_time")
        tx == Field(clip, "text")
    IN Obj([start_time |-> IF st.t = "number" THEN st ELSE Num(0),
            end_time |-> IF en.t = "number" THEN en ELSE Num(0),
            text |-> IF tx.t = "string" THEN tx ELSE Str("No text available")])

\* pollJobStatus, the completed branch up to the storage write: the normalized clips,
\* or a TypeError thrown on the way (caught by the function's catch block)
NormalizeClips(payload) ==
    LET normalized ==
            IF ~Truthy(payload) THEN Arr(<<>>)
            ELSE IF payload.t = "string"
                 THEN LET parsed == JSONparse(payload.v) IN
                      IF parsed.ok THEN parsed.value ELSE Arr(<<>>)
            ELSE IF IsArray(payload)
                 THEN Arr([i \in 1..Len(payload.v) |-> NormalizeClip(payload.v[i])])
            ELSE Arr(<<>>)
        mapThrows ==
            /\ Truthy(payload)
            /\ IsArray(payload)
            /\ \E i \in 1..Len(payload.v) : ThrowsOnPropertyRead(payload.v[i])
        lengthThrows == ThrowsOnPropertyRead(normalized)
    IN IF mapThrows \/ lengthThrows
          THEN [throws |-> TRUE, value |-> Undefined]
          ELSE [throws |-> FALSE, value |-> normalized]

\* Array.isArray(clips) && clips.length > 0
NonEmptyArray(x) == IsArray(x) /\ Len(x.v) > 0

\* displayClips: what the clips container shows
displayClips(x) ==
    IF ~Truthy(x) \/ ~NonEmptyArray(x) THEN "noclips"
    ELSE IF \A i \in 1..Len(x.v) : x.v[i].t # "object" THEN "novalidclips"
    ELSE "clips"

\* the elements of a clips array that pass !clip || typeof clip !== 'object', in order
RECURSIVE SelectClips(_)
SelectClips(s) ==
    IF s = <<>> THEN <<>>
    ELSE IF Head(s).t \in {"object", "array"} THEN <<Head(s)>> \o SelectClips(Tail(s))
    ELSE SelectClips(Tail(s))

\* const startTime = clip.start_time || 0, written into data-timestamp="${startTime}"
DataTimestamp(clip) ==
    LET st == Field(clip, "start_time") IN IF Truthy(st) THEN st ELSE Num(0)

\* displayClips: the .clip-item elements, one per element of clips that is an object,
\* each with its data-timestamp attribute
ClipItems(x) ==
    LET kept == SelectClips(x.v)
    IN [i \in 1..Len(kept) |-> [clip |-> kept[i], timestamp |-> DataTimestamp(kept[i])]]

\* error texts
E_CONNECT == "Cannot connect to server"
E_API == "API request failed"
E_LOST == "Lost connection to server"
E_STATUS == "Failed to get job status"
E_SERVER == "error_message of the job"
E_PROCESSING == "Processing failed"
E_TYPEERROR == "TypeError"
E_STALE == "Server is not responding"
E_NOCLIPS == "No clips found for the given prompt"
E_NOVALID == "No valid clips found in storage"
E_PROMPT == "Please enter what content you want to extract"
NoText == "(undefined)"

Prompts == {"p1", "p2"}

\* the value under the videoId key; the fields a writer leaves out are undefined
NoRec == [status |-> "absent", prompt |-> NoText, jobId |-> 0, clips |-> Undefined,
          error |-> NoText, lastUpdated |-> -1]

Record(status, prompt, jobId, clipsValue, err, lastUpdated) ==
    [status |-> status, prompt |-> prompt, jobId |-> jobId, clips |-> clipsValue,
     error |-> err, lastUpdated |-> lastUpdated]

Message(action, jobId, clipsValue, err) ==
    [action |-> action, jobId |-> jobId, clips |-> clipsValue, error |-> err]

\* a poll chain of pollJobStatus: its position, its arguments, the response being
\* processed; answered records that a request of the chain has been answered
NoPoll == [pc |-> "idle", prompt |-> NoText, status |-> "none", clips |-> Undefined,
           error |-> NoText, answered |-> FALSE]

\* the popup document before its scripts have run
InitialUI == [view |-> "initial", text |-> "", promptValue |-> "", promptDisabled |-> FALSE,
              extractDisabled |-> FALSE, startOver |-> FALSE, clickReady |-> FALSE,
              items |-> <<>>]

ClosedUI == [InitialUI EXCEPT !.view = "closed"]

\* the video element of a watch page before any seek
InitialVideo == [present |-> TRUE, currentTime |-> Num(0), paused |-> TRUE]

\* nothing is stored for the video of the other tab and its content script is idle
OtherIdle == [timeoutKey |-> 0, extracting |-> FALSE, status |-> "absent", lastUpdated |-> -1]

ExtIdle ==
    /\ rec = NoRec
    /\ promptKey = NoText
    /\ timeoutKey = 0
    /\ jobKeys = {}
    /\ extractions = {}
    /\ polls = [j \in 1..MaxJobs |-> NoPoll]
    /\ activePolls = 0
    /\ jobsCreated = 0
    /\ toPopup = <<>>
    /\ popupOpen = FALSE
    /\ ui = ClosedUI
    /\ tasks = {}
    /\ timers = {}
    /\ nextTimerId = 1
    /\ submissions = 0
    /\ now = 0
    /\ toContent = <<>>
    /\ pageVideo = InitialVideo
    /\ otherTab = OtherIdle

MapperIdle ==
    /\ clipPositions = <<>>
    /\ mapped = FALSE

PlayerIdle ==
    /\ selectedClipIndex = 0
    /\ paused = TRUE
    /\ currentTime = 0
    /\ loadState = "ready"
    /\ timeupdateListeners = {}
    /\ clipEndHandler = NoHandler
    /\ canplayListeners = {}
    /\ canPlayHandler = NoHandler
    /\ metadataListeners = <<>>
    /\ switchLog = <<>>
    /\ lastTimeUpdate = -1
    /\ viewMounted = TRUE
    /\ canPlayRuns = [id \in 1..MaxSwitches |-> 0]
    /\ metadataBatch = 0

HookIdle ==
    /\ currentJobId = 0
    /\ isActive = FALSE
    /\ intervalId = FALSE
    /\ effectId = 0
    /\ pollsIssued = 0
    /\ inflight = {}
    /\ serverJobs = [j \in 1..MaxWebJobs |-> "none"]
    /\ data = NoData
    /\ error = FALSE
    /\ loading = FALSE
    /\ terminalSeen = {}

PlayerInit ==
    /\ clips \in ClipLists(0..MaxClipTime, MaxPlayerClips)
    /\ MapperIdle
    /\ PlayerIdle
    /\ HookIdle
    /\ ExtIdle
    /\ stopPollingOnComplete = TRUE

\* a faulty variant: the previous ready-to-play handler stays attached
ReloadAndSeek_KeepsCanPlay(id, clip, start) ==
    LET handleCanPlay == [id |-> id, clip |-> clip, start |-> start] IN
    /\ paused' = TRUE
    /\ canplayListeners' = canplayListeners \cup {handleCanPlay}
    /\ canPlayHandler' = handleCanPlay
    /\ currentTime' = 0
    /\ loadState' = "loading"
    /\ metadataListeners' = Append(metadataListeners, [id |-> id, start |-> start])

\* a faulty variant: the element is not paused before the reload
ReloadAndSeek_NoPause(id, clip, start) ==
    LET handleCanPlay == [id |-> id, clip |-> clip, start |-> start] IN
    /\ paused' = paused
    /\ canplayListeners' = (canplayListeners \ {canPlayHandler}) \cup {handleCanPlay}
    /\ canPlayHandler' = handleCanPlay
    /\ currentTime' = 0
    /\ loadState' = "loading"
    /\ metadataListeners' = Append(metadataListeners, [id |-> id, start |-> start])

\* the part of playClip and playFullVideo after the guard was replaced: pause, replace
\* the canplay handler, load(), add the loadedmetadata once-listener, re-assign src
ReloadAndSeek(id, clip, start) ==
    LET handleCanPlay == [id |-> id, clip |-> clip, start |-> start] IN
    /\ paused' = TRUE
    /\ canplayListeners' = (canplayListeners \ {canPlayHandler}) \cup {handleCanPlay}
    /\ canPlayHandler' = handleCanPlay
    /\ currentTime' = 0
    /\ loadState' = "loading"
    /\ metadataListeners' = Append(metadataListeners, [id |-> id, start |-> start])

playClip(index) ==
    /\ viewMounted
    /\ Len(switchLog) < MaxSwitches
    /\ index \in 1..Len(clips)
    /\ LET clipPos == calculateClipPositionsInOutput(clips)
           id == Len(switchLog) + 1
           handleClipEnd == [id |-> id, clip |-> index, end |-> clipPos[index].end]
       IN /\ selectedClipIndex' = index
          /\ timeupdateListeners' =
                DetachClipEndHandler(timeupdateListeners, clipEndHandler) \cup {handleClipEnd}
          /\ clipEndHandler' = handleClipEnd
          /\ ReloadAndSeek(id, index, clipPos[index].start)
          /\ switchLog' = Append(switchLog, index)
    /\ UNCHANGED <<mapVars, hookVars, extVars, viewMounted, canPlayRuns, metadataBatch, lastTimeUpdate>>

playFullVideo ==
    /\ viewMounted
    /\ Len(switchLog) < MaxSwitches
    /\ selectedClipIndex' = 0
    /\ timeupdateListeners' = DetachClipEndHandler(timeupdateListeners, clipEndHandler)
    /\ clipEndHandler' = NoHandler
    /\ ReloadAndSeek(Len(switchLog) + 1, 0, 0)
    /\ switchLog' = Append(switchLog, 0)
    /\ UNCHANGED <<mapVars, hookVars, extVars, viewMounted, canPlayRuns, metadataBatch, lastTimeUpdate>>

\* a faulty variant: the listener added first has the last word
MetadataSeekTarget_First(listeners) == listeners[1].start

\* the once-listeners run in the order they were added, each assigning currentTime:
\* the position asked for last is the start of the listener added last
MetadataSeekTarget(listeners) == listeners[Len(listeners)].start

\* 'loadedmetadata': every once-listener sets currentTime to its start, in the order
\* the listeners were added, and is removed
LoadedMetadata ==
    /\ loadState = "loading"
    /\ loadState' = "metadata"
    /\ metadataListeners' = <<>>
    /\ metadataBatch' = Len(metadataListeners)
    /\ IF metadataListeners = <<>>
          THEN currentTime' = currentTime
          ELSE currentTime' \in SeekOutcomes(MetadataSeekTarget(metadataListeners))
    /\ UNCHANGED <<mapVars, hookVars, extVars, viewMounted, canPlayRuns, selectedClipIndex,
                   paused, timeupdateListeners, clipEndHandler,
                   canplayListeners, canPlayHandler, switchLog, lastTimeUpdate>>

\* a faulty variant: a handler that ran stays attached
DetachAfterRun_Keeps(listeners, ran) == listeners

\* handleCanPlay ends with removeEventListener('canplay', handleCanPlay)
DetachAfterRun(listeners, ran) == listeners \ ran

\* 'canplay' is dispatched: every attached handleCanPlay checks the position, corrects
\* it if it is off, calls play() and removes itself
DispatchCanPlay ==
    /\ canplayListeners' = DetachAfterRun(canplayListeners, canplayListeners)
    /\ canPlayRuns' = [id \in 1..MaxSwitches |->
                          IF \E h \in canplayListeners : h.id = id
                             THEN canPlayRuns[id] + 1 ELSE canPlayRuns[id]]
    /\ IF canplayListeners = {}
          THEN UNCHANGED <<currentTime, paused>>
          ELSE /\ paused' = FALSE
               /\ \E h \in canplayListeners :
                     /\ \A g \in canplayListeners : g.id <= h.id
                     /\ currentTime' = IF SeekSucceeded(h, currentTime)
                                          THEN currentTime ELSE Seek(h.start)

\* the first 'canplay' of a load
CanPlay ==
    /\ loadState = "metadata"
    /\ loadState' = "ready"
    /\ DispatchCanPlay
    /\ UNCHANGED <<mapVars, hookVars, extVars, viewMounted, metadataBatch, selectedClipIndex,
                   timeupdateListeners, clipEndHandler,
                   canPlayHandler, metadataListeners, switchLog, lastTimeUpdate>>

\* the element dispatches 'canplay' again without a reload: after a seek, such as the
\* one the handler's own correction starts, or when buffering has caught up
CanPlayAgain ==
    /\ loadState = "ready"
    /\ DispatchCanPlay
    /\ UNCHANGED <<mapVars, hookVars, extVars, viewMounted, metadataBatch, selectedClipIndex,
                   loadState, timeupdateListeners, clipEndHandler,
                   canPlayHandler, metadataListeners, switchLog, lastTimeUpdate>>

\* 'timeupdate' is dispatched: every attached clip-end guard runs
TimeUpdate ==
    /\ paused' = (paused \/ \E h \in timeupdateListeners : ClipEndReached(h, currentTime))
    /\ lastTimeUpdate' = currentTime
    /\ UNCHANGED <<mapVars, hookVars, extVars, viewMounted, canPlayRuns, metadataBatch, selectedClipIndex, currentTime, loadState, timeupdateListeners,
                   clipEndHandler, canplayListeners, canPlayHandler, metadataListeners,
                   switchLog>>

\* playback moves the position on
Advance ==
    /\ ~paused
    /\ loadState = "ready"
    /\ currentTime < VideoDuration
    /\ currentTime' = currentTime + 1
    /\ UNCHANGED <<mapVars, hookVars, extVars, viewMounted, canPlayRuns, metadataBatch, selectedClipIndex, paused, loadState, timeupdateListeners,
                   clipEndHandler, canplayListeners, canPlayHandler, metadataListeners,
                   switchLog, lastTimeUpdate>>

\* the user resumes playback through the element's native controls
NativePlay ==
    /\ paused
    /\ loadState = "ready"
    /\ paused' = FALSE
    /\ UNCHANGED <<mapVars, hookVars, extVars, viewMounted, canPlayRuns, metadataBatch, selectedClipIndex, currentTime, loadState, timeupdateListeners,
                   clipEndHandler, canplayListeners, canPlayHandler, metadataListeners,
                   switchLog, lastTimeUpdate>>

PlayerNext ==
    \/ \E index \in 1..MaxPlayerClips : playClip(index)
    \/ playFullVideo
    \/ LoadedMetadata
    \/ CanPlay
    \/ CanPlayAgain
    \/ TimeUpdate
    \/ Advance
    \/ NativePlay

SpecPlayer == PlayerInit /\ [][PlayerNext]_vars

\* the JobStatus view unmounts (Start Over): the cleanup effect removes the listeners
\* stored in _clipEndHandler and _canPlayHandler; its other removeEventListener calls
\* pass new functions, which are attached nowhere, so they remove nothing
Unmount ==
    /\ viewMounted
    /\ viewMounted' = FALSE
    /\ timeupdateListeners' = IF clipEndHandler # NoHandler
                                 THEN timeupdateListeners \ {clipEndHandler}
                                 ELSE timeupdateListeners
    /\ canplayListeners' = IF canPlayHandler # NoHandler
                              THEN canplayListeners \ {canPlayHandler}
                              ELSE canplayListeners
    /\ UNCHANGED <<mapVars, hookVars, extVars, selectedClipIndex, paused, currentTime,
                   loadState, clipEndHandler, canPlayHandler, metadataListeners,
                   switchLog, lastTimeUpdate, canPlayRuns, metadataBatch>>

\* the player with the teardown of its view; the element goes on loading and
\* dispatching events after it
TeardownNext ==
    \/ PlayerNext
    \/ Unmount

SpecTeardown == PlayerInit /\ [][TeardownNext]_vars

MapperInit ==
    /\ clips \in ClipLists(ClipTimes, MaxClips)
    /\ MapperIdle
    /\ PlayerIdle
    /\ HookIdle
    /\ ExtIdle
    /\ stopPollingOnComplete = TRUE

\* a render of the clip list calls calculateClipPositionsInOutput(data.clips)
ComputePositions ==
    /\ ~mapped
    /\ clipPositions' = calculateClipPositionsInOutput(clips)
    /\ mapped' = TRUE
    /\ UNCHANGED <<clips, playerVars, hookVars, extVars>>

MapperNext == ComputePositions

SpecMapper == MapperInit /\ [][MapperNext]_vars


\* ------------------------------------------------------------------------
\* Web page: page.tsx and the useJobStatus hook
\* ------------------------------------------------------------------------
HookInit ==
    /\ clips = <<>>
    /\ MapperIdle
    /\ PlayerIdle
    /\ HookIdle
    /\ ExtIdle
    /\ stopPollingOnComplete \in BOOLEAN

\* fetchStatus up to its await: if (!isActive || !jobId) return; setLoading(true);
\* getJobStatus(jobId) is called
fetchStatus ==
    IF ~isActive' \/ currentJobId' = 0
       THEN UNCHANGED <<inflight, loading, pollsIssued>>
       ELSE /\ loading' = TRUE
            /\ pollsIssued' = pollsIssued + 1
            /\ inflight' = inflight \cup
                  {[effect |-> effectId', n |-> pollsIssued + 1, job |-> currentJobId',
                    resp |-> "none"]}

\* handleJobSubmit: ExtractForm's POST /extract succeeded and returned a new job; the
\* JobStatus view mounts and the effect runs: isActive = true, the initial
\* fetchStatus(), then setInterval
handleJobSubmit ==
    /\ currentJobId = 0
    /\ \E j \in 1..MaxWebJobs :
          /\ serverJobs[j] = "none"
          /\ \A k \in 1..MaxWebJobs : k < j => serverJobs[k] # "none"
          /\ serverJobs' = [serverJobs EXCEPT ![j] = "processing"]
          /\ currentJobId' = j
    /\ effectId' = effectId + 1
    /\ isActive' = TRUE
    /\ data' = NoData
    /\ error' = FALSE
    /\ fetchStatus
    /\ intervalId' = TRUE
    /\ UNCHANGED <<mapVars, playerVars, extVars, stopPollingOnComplete, terminalSeen>>

\* the interval fires: fetchStatus()
IntervalTick ==
    /\ intervalId
    /\ pollsIssued < MaxPolls
    /\ UNCHANGED <<currentJobId, isActive, effectId>>
    /\ fetchStatus
    /\ UNCHANGED <<mapVars, playerVars, extVars, stopPollingOnComplete, intervalId, serverJobs,
                   data, error, terminalSeen>>

\* the service moves a job on
ServerAdvance(j) ==
    /\ serverJobs[j] = "processing"
    /\ \E st \in {"completed", "failed"} :
          serverJobs' = [serverJobs EXCEPT ![j] = st]
    /\ UNCHANGED <<mapVars, playerVars, extVars, currentJobId, stopPollingOnComplete, isActive,
                   intervalId, effectId, pollsIssued, inflight, data, error, loading,
                   terminalSeen>>

\* getJobStatus: the service answers GET /jobs/{id} with the job's snapshot, or the
\* request fails (transport failure, non-ok response): getJobStatus throws
ServerAnswer(r) ==
    /\ r \in inflight
    /\ r.resp = "none"
    /\ \E resp \in {serverJobs[r.job], "error"} :
          inflight' = (inflight \ {r}) \cup {[r EXCEPT !.resp = resp]}
    /\ UNCHANGED <<mapVars, playerVars, extVars, currentJobId, stopPollingOnComplete, isActive,
                   intervalId, effectId, pollsIssued, serverJobs, data, error, loading,
                   terminalSeen>>

\* a faulty variant: the response of any effect is handled
SessionActive_Always(effect, mounted, active) == TRUE

\* if (isActive) after the await: isActive of the closure of the effect that issued
\* the request; the cleanup of that effect has set it to false
SessionActive(effect, mounted, active) == effect = mounted /\ active

\* a faulty variant: a successful poll leaves error as it was
fetchStatusResolved_ErrorSticks(r) ==
    /\ r \in inflight
    /\ r.resp # "none"
    /\ inflight' = inflight \ {r}
    /\ IF SessionActive(r.effect, effectId, isActive)
          THEN /\ loading' = FALSE
               /\ error' = (error \/ r.resp = "error")
               /\ IF r.resp = "error"
                     THEN UNCHANGED <<data, intervalId, terminalSeen>>
                     ELSE /\ data' = [job |-> r.job, status |-> r.resp]
                          /\ IF ShouldStopPolling(stopPollingOnComplete, r.resp)
                                THEN intervalId' = FALSE
                                ELSE intervalId' = intervalId
                          /\ terminalSeen' = IF IsTerminal(r.resp)
                                                THEN terminalSeen \cup {r.effect}
                                                ELSE terminalSeen
          ELSE UNCHANGED <<data, error, loading, intervalId, terminalSeen>>
    /\ UNCHANGED <<mapVars, playerVars, extVars, currentJobId, stopPollingOnComplete, isActive,
                   effectId, pollsIssued, serverJobs>>

\* fetchStatus after its await: the try, catch and finally blocks
fetchStatusResolved(r) ==
    /\ r \in inflight
    /\ r.resp # "none"
    /\ inflight' = inflight \ {r}
    /\ IF SessionActive(r.effect, effectId, isActive)
          THEN /\ loading' = FALSE
               /\ IF r.resp = "error"
                     THEN /\ error' = TRUE
                          /\ UNCHANGED <<data, intervalId, terminalSeen>>
                     ELSE /\ data' = [job |-> r.job, status |-> r.resp]
                          /\ error' = FALSE
                          /\ IF ShouldStopPolling(stopPollingOnComplete, r.resp)
                                THEN intervalId' = FALSE
                                ELSE intervalId' = intervalId
                          /\ terminalSeen' = IF IsTerminal(r.resp)
                                                THEN terminalSeen \cup {r.effect}
                                                ELSE terminalSeen
          ELSE UNCHANGED <<data, error, loading, intervalId, terminalSeen>>
    /\ UNCHANGED <<mapVars, playerVars, extVars, currentJobId, stopPollingOnComplete, isActive,
                   effectId, pollsIssued, serverJobs>>

\* handleReset (Start Over): currentJobId = null, the JobStatus view unmounts and the
\* effect's cleanup runs: isActive = false, clearInterval
handleReset ==
    /\ currentJobId # 0
    /\ currentJobId' = 0
    /\ isActive' = FALSE
    /\ intervalId' = FALSE
    /\ data' = NoData
    /\ error' = FALSE
    /\ loading' = FALSE
    /\ pollsIssued' = 0
    /\ UNCHANGED <<mapVars, playerVars, extVars, stopPollingOnComplete, effectId, inflight,
                   serverJobs, terminalSeen>>

HookNext ==
    \/ handleJobSubmit
    \/ IntervalTick
    \/ \E j \in 1..MaxWebJobs : ServerAdvance(j)
    \/ \E r \in inflight : ServerAnswer(r)
    \/ \E r \in inflight : fetchStatusResolved(r)
    \/ handleReset

SpecHook == HookInit /\ [][HookNext]_vars

\* ------------------------------------------------------------------------
\* Extension: content script (extractClips, pollJobStatus)
\* ------------------------------------------------------------------------
webVars == <<mapVars, playerVars, hookVars>>

ExtInit ==
    /\ clips = <<>>
    /\ MapperIdle
    /\ PlayerIdle
    /\ HookIdle
    /\ stopPollingOnComplete = TRUE
    /\ ExtIdle

\* chrome.runtime.sendMessage: delivered to the popup's listener if a popup exists
SendToPopup(queue, open, m) == IF open THEN Append(queue, m) ELSE queue

\* the service answers POST /extract with a new job; extractClips goes on to its
\* first storage write
ExtractPostOk(t) ==
    /\ t \in extractions
    /\ t.pc = "post"
    /\ jobsCreated < MaxJobs
    /\ jobsCreated' = jobsCreated + 1
    /\ extractions' = (extractions \ {t}) \cup
                         {[t EXCEPT !.pc = "setRec", !.job = jobsCreated + 1]}
    /\ UNCHANGED <<webVars, pageVars, otherTab, storeVars, polls, activePolls, toPopup, popupVars, now>>

\* fetch rejects (TypeError) or the response is not ok: the catch block picks the text
ExtractPostFail(t, e) ==
    /\ t \in extractions
    /\ t.pc = "post"
    /\ extractions' = (extractions \ {t}) \cup {[t EXCEPT !.pc = "errSet", !.error = e]}
    /\ UNCHANGED <<webVars, pageVars, otherTab, storeVars, polls, activePolls, jobsCreated, toPopup,
                   popupVars, now>>

\* chrome.storage.local.set({[videoId]: {jobId, status: 'pending', prompt}}) is done
ExtractSetRec(t) ==
    /\ t \in extractions
    /\ t.pc = "setRec"
    /\ rec' = Record("pending", t.prompt, t.job, Undefined, NoText, -1)
    /\ extractions' = (extractions \ {t}) \cup {[t EXCEPT !.pc = "setJob"]}
    /\ UNCHANGED <<webVars, pageVars, otherTab, promptKey, timeoutKey, jobKeys, polls, activePolls,
                   jobsCreated, toPopup, popupVars, now>>

\* pollJobStatus up to its fetch: if (activePolls.has(videoId)) { clearTimeout(...);
\* activePolls.delete(videoId) }: a timer that is still armed dies with its chain
ClearExistingPoll(ps, active) ==
    [k \in DOMAIN ps |->
        IF k = active /\ ps[k].pc = "timer" THEN [ps[k] EXCEPT !.pc = "cancelled"]
        ELSE ps[k]]

\* a faulty variant: the armed timer is cleared but no request is issued
PollEntry_NoRequest(j, prompt) ==
    /\ activePolls' = 0
    /\ polls' = ClearExistingPoll(polls, activePolls)

PollEntry(j, prompt) ==
    /\ activePolls' = 0
    /\ polls' = [ClearExistingPoll(polls, activePolls) EXCEPT
                    ![j] = [NoPoll EXCEPT !.pc = "fetch", !.prompt = prompt,
                                          !.answered = polls[j].answered]]

\* the set of job_<jobId> is done; jobStarted is sent; pollJobStatus(jobId, ...) starts
ExtractSetJob(t) ==
    /\ t \in extractions
    /\ t.pc = "setJob"
    /\ jobKeys' = jobKeys \cup {[jobId |-> t.job, prompt |-> t.prompt]}
    /\ toPopup' = SendToPopup(toPopup, popupOpen, Message("jobStarted", t.job, Undefined, NoText))
    /\ PollEntry(t.job, t.prompt)
    /\ extractions' = extractions \ {t}
    /\ UNCHANGED <<webVars, pageVars, otherTab, rec, promptKey, timeoutKey, jobsCreated, popupVars, now>>

\* the catch block's storage write is done; extractionError is sent
ExtractErrSet(t) ==
    /\ t \in extractions
    /\ t.pc = "errSet"
    /\ rec' = Record("failed", t.prompt, 0, Undefined, t.error, -1)
    /\ toPopup' = SendToPopup(toPopup, popupOpen, Message("extractionError", 0, Undefined, t.error))
    /\ extractions' = extractions \ {t}
    /\ UNCHANGED <<webVars, pageVars, otherTab, promptKey, timeoutKey, jobKeys, polls, activePolls,
                   jobsCreated, popupVars, now>>

\* GET /jobs/{id} resolved with an ok response: data is the job's snapshot; the
\* function goes on to chrome.storage.local.get(videoId)
PollResponseOk(j, st, payload, msg) ==
    /\ polls[j].pc = "fetch"
    /\ st = "completed" \/ payload = Undefined
    /\ IF st = "failed" THEN msg # NoText ELSE msg = NoText
    /\ polls' = [polls EXCEPT ![j] = [@ EXCEPT !.pc = "get", !.status = st,
                                               !.clips = payload, !.error = msg,
                                               !.answered = TRUE]]
    /\ UNCHANGED <<webVars, pageVars, otherTab, storeVars, extractions, activePolls, jobsCreated, toPopup,
                   popupVars, now>>

\* fetch rejected, or the response is not ok (the job id is unknown, a server error)
PollResponseFail(j, e) ==
    /\ polls[j].pc = "fetch"
    /\ polls' = [polls EXCEPT ![j] = [@ EXCEPT !.pc = "errSet", !.error = e,
                                               !.answered = TRUE]]
    /\ UNCHANGED <<webVars, pageVars, otherTab, storeVars, extractions, activePolls, jobsCreated, toPopup,
                   popupVars, now>>

\* the storage read is done: stop on a failed record, else branch on data.status
PollAfterGet(j) ==
    /\ polls[j].pc = "get"
    /\ LET p == polls[j]
           n == NormalizeClips(p.clips)
       IN IF rec.status = "failed"
             THEN /\ polls' = [polls EXCEPT ![j] = [@ EXCEPT !.pc = "stopped"]]
                  /\ UNCHANGED activePolls
          ELSE IF p.status = "completed"
             THEN /\ polls' = [polls EXCEPT ![j] =
                        IF n.throws
                           THEN [@ EXCEPT !.pc = "errSet", !.error = E_TYPEERROR]
                           ELSE [@ EXCEPT !.pc = "setDone", !.clips = n.value]]
                  /\ UNCHANGED activePolls
          ELSE IF p.status = "failed"
             THEN /\ polls' = [polls EXCEPT ![j] =
                        [@ EXCEPT !.pc = "setFail",
                                  !.error = IF p.error # "" THEN p.error ELSE E_PROCESSING]]
                  /\ UNCHANGED activePolls
          ELSE /\ polls' = [polls EXCEPT ![j] = [@ EXCEPT !.pc = "timer"]]
               /\ activePolls' = j
    /\ UNCHANGED <<webVars, pageVars, otherTab, storeVars, extractions, jobsCreated, toPopup, popupVars, now>>

\* a faulty variant: the completed record is not written before the message is sent
PollSetDone_NoWrite(j) ==
    /\ polls[j].pc = "setDone"
    /\ polls' = [polls EXCEPT ![j] = [@ EXCEPT !.pc = "verify"]]
    /\ UNCHANGED <<webVars, pageVars, otherTab, storeVars, extractions, activePolls,
                   jobsCreated, toPopup, popupVars, now>>

\* the write of the completed record is done; the function reads the record back
PollSetDone(j) ==
    /\ polls[j].pc = "setDone"
    /\ rec' = Record("completed", polls[j].prompt, j, polls[j].clips, NoText, -1)
    /\ polls' = [polls EXCEPT ![j] = [@ EXCEPT !.pc = "verify"]]
    /\ UNCHANGED <<webVars, pageVars, otherTab, promptKey, timeoutKey, jobKeys, extractions, activePolls,
                   jobsCreated, toPopup, popupVars, now>>

\* updatedData[videoId].clips is read (a TypeError if the key is gone), then
\* extractionComplete is sent
PollVerify(j) ==
    /\ polls[j].pc = "verify"
    /\ IF rec = NoRec
          THEN /\ polls' = [polls EXCEPT ![j] =
                              [@ EXCEPT !.pc = "errSet", !.error = E_TYPEERROR]]
               /\ UNCHANGED toPopup
          ELSE /\ polls' = [polls EXCEPT ![j] = [@ EXCEPT !.pc = "stopped"]]
               /\ toPopup' = SendToPopup(toPopup, popupOpen,
                                Message("extractionComplete", j, polls[j].clips, NoText))
    /\ UNCHANGED <<webVars, pageVars, otherTab, storeVars, extractions, activePolls, jobsCreated, popupVars, now>>

\* a faulty variant: the failed record is written but the chain arms its next timer
PollSetFail_KeepsPolling(j) ==
    /\ polls[j].pc = "setFail"
    /\ rec' = Record("failed", polls[j].prompt, j, Undefined, polls[j].error, -1)
    /\ polls' = [polls EXCEPT ![j] = [@ EXCEPT !.pc = "timer"]]
    /\ activePolls' = j
    /\ toPopup' = SendToPopup(toPopup, popupOpen,
                     Message("extractionError", j, Undefined, polls[j].error))
    /\ UNCHANGED <<webVars, pageVars, otherTab, promptKey, timeoutKey, jobKeys, extractions,
                   jobsCreated, popupVars, now>>

\* data.status === 'failed': the write of the failed record is done; extractionError is sent
PollSetFail(j) ==
    /\ polls[j].pc = "setFail"
    /\ rec' = Record("failed", polls[j].prompt, j, Undefined, polls[j].error, -1)
    /\ polls' = [polls EXCEPT ![j] = [@ EXCEPT !.pc = "stopped"]]
    /\ toPopup' = SendToPopup(toPopup, popupOpen,
                     Message("extractionError", j, Undefined, polls[j].error))
    /\ UNCHANGED <<webVars, pageVars, otherTab, promptKey, timeoutKey, jobKeys, extractions, activePolls,
                   jobsCreated, popupVars, now>>

\* the catch block: the write of the failed record is done; extractionError is sent
PollErrSet(j) ==
    /\ polls[j].pc = "errSet"
    /\ rec' = Record("failed", polls[j].prompt, 0, Undefined, polls[j].error, -1)
    /\ polls' = [polls EXCEPT ![j] = [@ EXCEPT !.pc = "stopped"]]
    /\ toPopup' = SendToPopup(toPopup, popupOpen,
                     Message("extractionError", j, Undefined, polls[j].error))
    /\ UNCHANGED <<webVars, pageVars, otherTab, promptKey, timeoutKey, jobKeys, extractions, activePolls,
                   jobsCreated, popupVars, now>>

\* setTimeout(() => pollJobStatus(jobId, videoId, prompt), 5000) fires
PollTimerFires(j) ==
    /\ polls[j].pc = "timer"
    /\ PollEntry(j, polls[j].prompt)
    /\ UNCHANGED <<webVars, pageVars, otherTab, storeVars, extractions, jobsCreated, toPopup, popupVars, now>>

\* the tab is reloaded: the content script starts anew (activePolls = new Map()), its
\* timers and pending continuations are gone and the page has a new video element;
\* chrome.storage.local is kept
ContentReload ==
    /\ extractions # {} \/ \E j \in 1..MaxJobs : polls[j].pc \notin {"idle", "cancelled", "stopped"}
    /\ extractions' = {}
    /\ polls' = [j \in 1..MaxJobs |->
                   IF polls[j].pc \in {"idle", "cancelled", "stopped"} THEN polls[j]
                   ELSE [polls[j] EXCEPT !.pc = "cancelled"]]
    /\ activePolls' = 0
    /\ toContent' = <<>>
    /\ pageVideo' = InitialVideo
    /\ UNCHANGED <<webVars, otherTab, storeVars, jobsCreated, toPopup, popupVars, now>>

\* a poll chain is live: a request is outstanding, a response is being processed or
\* its timer is armed
PollLive(j) == polls[j].pc \notin {"idle", "cancelled", "stopped"}

ContentSteps(in) ==
    \/ \E t \in extractions :
          \/ ExtractPostOk(t)
          \/ \E e \in in.postErrors : ExtractPostFail(t, e)
          \/ ExtractSetRec(t)
          \/ ExtractSetJob(t)
          \/ ExtractErrSet(t)
    \/ \E j \in 1..MaxJobs :
          \/ \E st \in {"processing", "completed", "failed"} :
             \E payload \in in.payloads \cup {Undefined} :
             \E msg \in in.failTexts \cup {NoText} : PollResponseOk(j, st, payload, msg)
          \/ \E e \in in.pollErrors : PollResponseFail(j, e)
          \/ PollAfterGet(j)
          \/ PollSetDone(j)
          \/ PollVerify(j)
          \/ PollSetFail(j)
          \/ PollErrSet(j)
          \/ PollTimerFires(j)

\* ------------------------------------------------------------------------
\* Extension: popup (popup.js)
\* ------------------------------------------------------------------------
showLoadingState(u) == [u EXCEPT !.view = "loading", !.text = "", !.items = <<>>]

showError(u, text) == [u EXCEPT !.view = "error", !.text = text, !.items = <<>>]

addStartOverButton(u) == [u EXCEPT !.startOver = TRUE]

\* displayClips: the container shows the clips, or a "no clips" status; the Extract
\* button is disabled only when clips were rendered
ShowClips(u, clipsValue) ==
    LET shown == displayClips(clipsValue) IN
    IF shown = "clips"
       THEN [u EXCEPT !.view = "clips", !.text = "", !.extractDisabled = TRUE,
                      !.items = ClipItems(clipsValue)]
       ELSE [u EXCEPT !.view = shown, !.text = E_NOCLIPS, !.items = <<>>]

\* a popup document is created: the message listener is registered and the
\* DOMContentLoaded handler starts with its storage read
PopupOpen ==
    /\ ~popupOpen
    /\ popupOpen' = TRUE
    /\ ui' = InitialUI
    /\ tasks' = {[pc |-> "init1"]}
    /\ timers' = {}
    /\ nextTimerId' = 1
    /\ UNCHANGED <<webVars, pageVars, otherTab, storeVars, contentVars, toPopup, submissions, now>>

\* the popup is closed: its document, timers and pending callbacks are gone, and
\* messages sent to it are lost
PopupClose ==
    /\ popupOpen
    /\ popupOpen' = FALSE
    /\ ui' = ClosedUI
    /\ tasks' = {}
    /\ timers' = {}
    /\ toPopup' = <<>>
    /\ UNCHANGED <<webVars, pageVars, otherTab, storeVars, contentVars, nextTimerId, submissions, now>>

\* DOMContentLoaded handler: chrome.storage.local.get([videoId, prompt_<videoId>]) is
\* done; clips stored as a string are parsed; the prompt is restored
PopupInitRead ==
    /\ [pc |-> "init1"] \in tasks
    /\ LET parsed == IF rec.clips.t = "string" THEN JSONparse(rec.clips.v)
                     ELSE [ok |-> FALSE, value |-> Undefined]
           videoData == IF parsed.ok THEN [rec EXCEPT !.clips = parsed.value] ELSE rec
           restored == IF promptKey \notin {NoText, ""} THEN promptKey
                       ELSE IF rec # NoRec /\ rec.prompt \notin {NoText, ""} THEN rec.prompt
                       ELSE ui.promptValue
       IN /\ tasks' = (tasks \ {[pc |-> "init1"]}) \cup
                         {[pc |-> "init2", videoData |-> videoData]}
          /\ ui' = [ui EXCEPT !.promptValue = restored]
    /\ UNCHANGED <<webVars, pageVars, otherTab, storeVars, contentVars, toPopup, popupOpen, timers,
                   nextTimerId, submissions, now>>

\* the job_<jobId> entry the handler resolves: the one of the record's job if it is
\* stored, else any job_ entry, else none
JobDataChoices(videoData) ==
    LET own == {k \in jobKeys : videoData # NoRec /\ videoData.jobId # 0
                                /\ k.jobId = videoData.jobId}
    IN IF own # {} THEN own ELSE jobKeys

\* the if (jobData && jobData.prompt) block
AdoptJob(u, jobData) ==
    [showLoadingState(u) EXCEPT
        !.promptValue = IF u.promptValue = "" THEN jobData.prompt ELSE u.promptValue,
        !.promptDisabled = TRUE,
        !.extractDisabled = TRUE]

\* a faulty variant: without a record the loading state is shown
RenderRecord_LoadingWhenAbsent(u, videoData) ==
    [showLoadingState(u) EXCEPT !.promptDisabled = TRUE, !.extractDisabled = TRUE]

\* the if (videoData) block
RenderRecord(u, videoData) ==
    IF videoData = NoRec THEN u
    ELSE IF videoData.status = "completed"
       THEN IF Truthy(videoData.clips) /\ NonEmptyArray(videoData.clips)
               THEN addStartOverButton(
                      [ShowClips(u, videoData.clips) EXCEPT !.promptDisabled = TRUE,
                                                            !.extractDisabled = TRUE])
               ELSE showError(u, E_NOVALID)
    ELSE IF videoData.status = "pending"
       THEN [showLoadingState(u) EXCEPT !.promptDisabled = TRUE, !.extractDisabled = TRUE]
    ELSE IF videoData.status = "failed"
       THEN addStartOverButton(
              [showError(u, videoData.error) EXCEPT !.promptDisabled = FALSE,
                                                    !.extractDisabled = FALSE])
    ELSE u

\* chrome.storage.local.get(null) is done: the job lookup, the record is rendered and
\* the click handler of the Extract button is attached
PopupInitFinish ==
    \E t \in tasks :
       /\ t.pc = "init2"
       /\ \E jobData \in IF JobDataChoices(t.videoData) = {}
                            THEN {[jobId |-> 0, prompt |-> ""]}
                            ELSE JobDataChoices(t.videoData) :
             LET adopted == IF jobData.prompt # "" THEN AdoptJob(ui, jobData) ELSE ui
             IN ui' = [RenderRecord(adopted, t.videoData) EXCEPT !.clickReady = TRUE]
       /\ tasks' = tasks \ {t}
       /\ UNCHANGED <<webVars, pageVars, otherTab, storeVars, contentVars, toPopup, popupOpen, timers,
                      nextTimerId, submissions, now>>

\* the user types a prompt into the empty field
TypePrompt(p) ==
    /\ popupOpen
    /\ ui.clickReady
    /\ ~ui.promptDisabled
    /\ ui.promptValue = ""
    /\ ui' = [ui EXCEPT !.promptValue = p]
    /\ UNCHANGED <<webVars, pageVars, otherTab, storeVars, contentVars, toPopup, popupOpen, tasks, timers,
                   nextTimerId, submissions, now>>

\* click on Extract: an empty prompt is refused; else the first storage write
\* ({prompt_<videoId>, [videoId]: {status: 'pending', prompt, lastUpdated}}) is issued
ClickExtract(limit) ==
    /\ popupOpen
    /\ ui.clickReady
    /\ ~ui.extractDisabled
    /\ IF ui.promptValue = ""
          THEN /\ ui' = showError(ui, E_PROMPT)
               /\ UNCHANGED <<tasks, submissions>>
          ELSE /\ submissions < limit
               /\ submissions' = submissions + 1
               /\ tasks' = tasks \cup {[pc |-> "click1", n |-> submissions + 1,
                                        prompt |-> ui.promptValue, lastUpdated |-> now]}
               /\ UNCHANGED ui
    /\ UNCHANGED <<webVars, pageVars, otherTab, storeVars, contentVars, toPopup, popupOpen, timers,
                   nextTimerId, now>>

\* the first write is done: loading state, inputs disabled, the staleness timer is
\* armed (setTimeout(..., 15000)) and the write of timeout_<videoId> is issued
ClickArmTimer(t) ==
    /\ t \in tasks
    /\ t.pc = "click1"
    /\ promptKey' = t.prompt
    /\ rec' = Record("pending", t.prompt, 0, Undefined, NoText, t.lastUpdated)
    /\ ui' = [showLoadingState(ui) EXCEPT !.promptDisabled = TRUE, !.extractDisabled = TRUE]
    /\ timers' = timers \cup {[id |-> nextTimerId, prompt |-> t.prompt,
                               due |-> now + StaleTicks]}
    /\ nextTimerId' = nextTimerId + 1
    /\ tasks' = (tasks \ {t}) \cup {[pc |-> "click2", n |-> t.n, prompt |-> t.prompt,
                                     id |-> nextTimerId]}
    /\ UNCHANGED <<webVars, pageVars, otherTab, timeoutKey, jobKeys, contentVars, toPopup, popupOpen,
                   submissions, now>>

\* the write of timeout_<videoId> is done; extractClips is sent to the content script,
\* whose listener calls extractClips(videoId, prompt): POST /extract is issued
ClickSendExtract(t) ==
    /\ t \in tasks
    /\ t.pc = "click2"
    /\ timeoutKey' = t.id
    /\ tasks' = tasks \ {t}
    /\ extractions' = extractions \cup
          {[n |-> t.n, prompt |-> t.prompt, pc |-> "post", job |-> 0, error |-> NoText]}
    /\ UNCHANGED <<webVars, pageVars, otherTab, rec, promptKey, jobKeys, polls, activePolls, jobsCreated,
                   toPopup, popupOpen, ui, timers, nextTimerId, submissions, now>>

\* Date.now() - (videoData?.lastUpdated || 0) > 15000, with the clock in windows: a
\* difference of one window may be more or less than 15000 ms
StaleOutcomes(lastUpdated, t) ==
    IF lastUpdated = -1 \/ t - lastUpdated > StaleTicks THEN {TRUE}
    ELSE IF t - lastUpdated = StaleTicks THEN {TRUE, FALSE}
    ELSE {FALSE}

\* the condition of the staleness callback
StaleCondition(videoData, stale) ==
    videoData # NoRec /\ videoData.status = "pending" /\ stale

\* the staleness timer fires and its storage read is done: on a stale pending record
\* the error is shown and the write of the failed record is issued
StaleFire(tm) ==
    /\ tm \in timers
    /\ now >= tm.due
    /\ timers' = timers \ {tm}
    /\ \E stale \in StaleOutcomes(rec.lastUpdated, now) :
          IF StaleCondition(rec, stale)
             THEN /\ ui' = addStartOverButton(
                             [showError(ui, E_STALE) EXCEPT !.promptValue = tm.prompt,
                                                            !.promptDisabled = FALSE,
                                                            !.extractDisabled = FALSE])
                  /\ tasks' = tasks \cup {[pc |-> "stale2", prompt |-> tm.prompt]}
             ELSE UNCHANGED <<ui, tasks>>
    /\ UNCHANGED <<webVars, pageVars, otherTab, storeVars, contentVars, toPopup, popupOpen, nextTimerId,
                   submissions, now>>

\* the staleness callback's write of the failed record is done
StaleWrite(t) ==
    /\ t \in tasks
    /\ t.pc = "stale2"
    /\ rec' = Record("failed", t.prompt, 0, Undefined, E_STALE, -1)
    /\ tasks' = tasks \ {t}
    /\ UNCHANGED <<webVars, pageVars, otherTab, promptKey, timeoutKey, jobKeys, contentVars, toPopup,
                   popupOpen, ui, timers, nextTimerId, submissions, now>>

\* the clips the extractionComplete handler uses: those of the stored record if it
\* has a non-empty array, else those of the message, else none
ChooseClips(videoData, message) ==
    IF videoData # NoRec /\ Truthy(videoData.clips) /\ NonEmptyArray(videoData.clips)
       THEN videoData.clips
    ELSE IF NonEmptyArray(message.clips) THEN message.clips
    ELSE Arr(<<>>)

\* a message of the content script arrives and the listener's storage reads are done:
\* the lastUpdated write is issued from the record read, the staleness timer named by
\* timeout_<videoId> is cleared and the key's removal issued
MessageReceived ==
    /\ toPopup # <<>>
    /\ LET m == Head(toPopup) IN
       /\ toPopup' = Tail(toPopup)
       /\ timers' = IF timeoutKey # 0 THEN {tm \in timers : tm.id # timeoutKey} ELSE timers
       /\ tasks' = tasks \cup
             {[pc |-> "msg2", message |-> m,
               write |-> IF rec # NoRec THEN [rec EXCEPT !.lastUpdated = now] ELSE NoRec,
               remove |-> timeoutKey # 0,
               clips |-> ChooseClips(rec, m),
               jobId |-> IF m.jobId # 0 THEN m.jobId ELSE rec.jobId,
               prompt |-> promptKey]}
    /\ UNCHANGED <<webVars, pageVars, otherTab, storeVars, contentVars, popupOpen, ui, nextTimerId,
                   submissions, now>>

\* the writes issued on receipt are done. extractionError: the failed record is
\* written and shown. extractionComplete: prompt_<videoId> is read; with clips the
\* write of the completed record is issued, without clips an error is shown
MessageWrites(t) ==
    /\ t \in tasks
    /\ t.pc = "msg2"
    /\ timeoutKey' = IF t.remove THEN 0 ELSE timeoutKey
    /\ LET afterRefresh == IF t.write # NoRec THEN t.write ELSE rec IN
       CASE t.message.action = "extractionError" ->
              /\ rec' = Record("failed", t.prompt, 0, Undefined, t.message.error, now)
              /\ ui' = addStartOverButton(
                         [showError(ui, t.message.error) EXCEPT
                             !.promptValue = IF t.prompt \notin {NoText, ""}
                                                THEN t.prompt ELSE ui.promptValue,
                             !.promptDisabled = IF t.prompt \notin {NoText, ""}
                                                   THEN FALSE ELSE ui.promptDisabled,
                             !.extractDisabled = FALSE])
              /\ tasks' = tasks \ {t}
         [] t.message.action = "extractionComplete" ->
              /\ rec' = afterRefresh
              /\ IF Len(t.clips.v) > 0
                    THEN /\ tasks' = (tasks \ {t}) \cup
                               {[pc |-> "msg3", clips |-> t.clips, prompt |-> promptKey,
                                 write |-> Record("completed", promptKey, t.jobId, t.clips,
                                                  NoText, now)]}
                         /\ UNCHANGED ui
                    ELSE /\ tasks' = tasks \ {t}
                         /\ ui' = showError(ui, E_NOCLIPS)
         [] OTHER ->
              /\ rec' = afterRefresh
              /\ tasks' = tasks \ {t}
              /\ UNCHANGED ui
    /\ UNCHANGED <<webVars, pageVars, otherTab, promptKey, jobKeys, contentVars, toPopup, popupOpen, timers,
                   nextTimerId, submissions, now>>

\* extractionComplete: the write of the completed record is done; the prompt is
\* restored and disabled, the clips are displayed, Start Over is added
MessageShowClips(t) ==
    /\ t \in tasks
    /\ t.pc = "msg3"
    /\ rec' = t.write
    /\ ui' = addStartOverButton(
               ShowClips([ui EXCEPT
                             !.promptValue = IF t.prompt \notin {NoText, ""}
                                                THEN t.prompt ELSE ui.promptValue,
                             !.promptDisabled = IF t.prompt \notin {NoText, ""}
                                                   THEN TRUE ELSE ui.promptDisabled],
                         t.clips))
    /\ tasks' = tasks \ {t}
    /\ UNCHANGED <<webVars, pageVars, otherTab, promptKey, timeoutKey, jobKeys, contentVars, toPopup,
                   popupOpen, timers, nextTimerId, submissions, now>>

\* a faulty variant: the prompt field is left as it was
ResetUI_KeepsPrompt(u) ==
    [u EXCEPT !.view = "idle", !.text = "", !.extractDisabled = FALSE, !.startOver = FALSE,
              !.items = <<>>]

\* Reset UI: promptInput.value = ''; both inputs enabled; the container shows
\* 'Enter a prompt to extract clips.'; startOverButton.remove()
ResetUI(u) ==
    [u EXCEPT !.view = "idle", !.text = "", !.promptValue = "", !.promptDisabled = FALSE,
              !.extractDisabled = FALSE, !.startOver = FALSE, !.items = <<>>]

\* click on Start Over: chrome.storage.local.remove([videoId, prompt_, timeout_]) is issued
StartOverClick ==
    /\ popupOpen
    /\ ui.startOver
    /\ [pc |-> "startOver"] \notin tasks
    /\ tasks' = tasks \cup {[pc |-> "startOver"]}
    /\ UNCHANGED <<webVars, pageVars, otherTab, storeVars, contentVars, toPopup, popupOpen, ui, timers,
                   nextTimerId, submissions, now>>

\* the removal is done; the UI is reset and the button removed
StartOverDone ==
    /\ [pc |-> "startOver"] \in tasks
    /\ rec' = NoRec
    /\ promptKey' = NoText
    /\ timeoutKey' = 0
    /\ ui' = ResetUI(ui)
    /\ tasks' = tasks \ {[pc |-> "startOver"]}
    /\ UNCHANGED <<webVars, pageVars, otherTab, jobKeys, contentVars, toPopup, popupOpen, timers,
                   nextTimerId, submissions, now>>

\* a staleness window passes
Tick ==
    /\ now < MaxTicks
    /\ now' = now + 1
    /\ UNCHANGED <<webVars, pageVars, otherTab, storeVars, contentVars, toPopup, popupVars>>

PopupInitSteps ==
    \/ PopupOpen
    \/ PopupInitRead
    \/ PopupInitFinish

SubmitSteps(in) ==
    \/ \E p \in in.prompts : TypePrompt(p)
    \/ ClickExtract(in.limit)
    \/ \E t \in tasks : ClickArmTimer(t)
    \/ \E t \in tasks : ClickSendExtract(t)

StaleSteps ==
    \/ \E tm \in timers : StaleFire(tm)
    \/ \E t \in tasks : StaleWrite(t)
    \/ Tick

MessageSteps ==
    \/ MessageReceived
    \/ \E t \in tasks : MessageWrites(t)
    \/ \E t \in tasks : MessageShowClips(t)

StartOverSteps ==
    \/ StartOverClick
    \/ StartOverDone

\* two submissions for the video; the service returns well-formed clips
TwoSubmissions ==
    [limit |-> MaxJobs, prompts |-> {"p1"}, payloads |-> {Arr(<<GoodClip>>)},
     postErrors |-> {E_CONNECT}, pollErrors |-> {E_LOST}, failTexts |-> {E_SERVER}]

ExtNext ==
    \/ ContentSteps(TwoSubmissions)
    \/ PopupInitSteps
    \/ SubmitSteps(TwoSubmissions)
    \/ StaleSteps

SpecExt == ExtInit /\ [][ExtNext]_vars

\* one submission; the service returns any of the clips payloads and error texts
AnyResponse ==
    [limit |-> 1, prompts |-> Prompts, payloads |-> ClipsPayloads,
     postErrors |-> {E_CONNECT, E_API}, pollErrors |-> {E_LOST, E_STATUS},
     failTexts |-> {E_SERVER, ""}]

ClipsNext ==
    \/ ContentSteps(AnyResponse)
    \/ PopupInitSteps
    \/ SubmitSteps(AnyResponse)
    \/ StaleSteps
    \/ MessageSteps
    \/ StartOverSteps
    \/ PopupClose
    \/ ContentReload

SpecClips == ExtInit /\ [][ClipsNext]_vars

\* ------------------------------------------------------------------------
\* The extension: seeking the page's video from the popup's clip list
\* ------------------------------------------------------------------------
\* the number whole + tenths/10, and NaN
FracNum(whole, tenths) == [t |-> "number", v |-> whole, tenths |-> tenths]
NaN == [t |-> "number", v |-> 0, nan |-> TRUE]

\* a clip that starts at 12.5 s
HalfClip == Obj([start_time |-> FracNum(12, 5), end_time |-> Num(20), text |-> Str("detail")])

\* parseInt(item.dataset.timestamp): the attribute holds the number's decimal text,
\* of which parseInt reads the digits before the point
ParseInt(x) == IF x.t = "number" /\ x # NaN THEN Num(x.v) ELSE NaN

\* click on a .clip-item: chrome.tabs.query, then sendMessage({action: 'seekTo',
\* timestamp: parseInt(timestamp)}) to the tab
ClickClip(i) ==
    /\ popupOpen
    /\ i \in 1..Len(ui.items)
    /\ Len(toContent) < MaxSeeks
    /\ toContent' = Append(toContent, [action |-> "seekTo",
                                       timestamp |-> ParseInt(ui.items[i].timestamp)])
    /\ UNCHANGED <<webVars, otherTab, storeVars, contentVars, toPopup, popupVars, now, pageVideo>>

\* the content script's listener receives seekTo: if the page has a video, currentTime
\* is set (a TypeError for a value that is not finite) and play() is called
SeekToReceived ==
    /\ toContent # <<>>
    /\ toContent' = Tail(toContent)
    /\ LET request == Head(toContent) IN
       IF pageVideo.present /\ request.timestamp # NaN
          THEN pageVideo' = [pageVideo EXCEPT !.currentTime = request.timestamp,
                                              !.paused = FALSE]
          ELSE UNCHANGED pageVideo
    /\ UNCHANGED <<webVars, otherTab, storeVars, contentVars, toPopup, popupVars, now>>

\* the user pauses the page's video
PagePause ==
    /\ ~pageVideo.paused
    /\ pageVideo' = [pageVideo EXCEPT !.paused = TRUE]
    /\ UNCHANGED <<webVars, otherTab, storeVars, contentVars, toPopup, popupVars, now, toContent>>

SeekSteps ==
    \/ \E i \in 1..MaxShownClips : ClickClip(i)
    \/ SeekToReceived
    \/ PagePause

\* one submission answered with two clips, one of which starts between two seconds
TwoClipsFound ==
    [limit |-> 1, prompts |-> {"p1"}, payloads |-> {Arr(<<GoodClip, HalfClip>>)},
     postErrors |-> {E_CONNECT}, pollErrors |-> {E_LOST}, failTexts |-> {E_SERVER}]

SeekNext ==
    \/ ContentSteps(TwoClipsFound)
    \/ PopupInitSteps
    \/ SubmitSteps(TwoClipsFound)
    \/ MessageSteps
    \/ PopupClose
    \/ SeekSteps

SpecSeek == ExtInit /\ [][SeekNext]_vars

\* the value processVideo stores under the video id: an array of three sample clips
\* {timestamp, summary}. Read as a record it has no status, prompt, jobId, clips,
\* error or lastUpdated
SampleClips == [NoRec EXCEPT !.status = NoText]

\* processVideo, run 2 s after the page's load event (the first load, or a reload
\* while nothing else runs in the content script): returns if a value is stored under
\* the video id or the page has no subtitles button; else stores the sample clips
processVideo ==
    /\ extractions = {}
    /\ \A j \in 1..MaxJobs : ~PollLive(j)
    /\ rec = NoRec
    /\ \E transcriptButton \in BOOLEAN :
          IF transcriptButton THEN rec' = SampleClips ELSE UNCHANGED rec
    /\ UNCHANGED <<webVars, pageVars, otherTab, promptKey, timeoutKey, jobKeys, contentVars, toPopup,
                   popupVars, now>>

\* the extension with the page-load step of the content script
LoadNext ==
    \/ ClipsNext
    \/ processVideo

SpecLoad == ExtInit /\ [][LoadNext]_vars

\* ------------------------------------------------------------------------
\* Extension: a second tab with another video
\* ------------------------------------------------------------------------
\* the job the service creates for the other tab's video, and its prompt
OtherJobId == MaxJobs + 1
OtherPrompt == "p2"

\* a popup session on the other tab, while no popup is open: a prompt is submitted,
\* which stores the pending record and arms the staleness timer, the first timer of
\* that popup document; its id is stored under timeout_<other video>, extractClips is
\* sent to the other tab's content script, and the popup is closed
OtherTabSubmit ==
    /\ ~popupOpen
    /\ otherTab = OtherIdle
    /\ otherTab' = [timeoutKey |-> 1, extracting |-> TRUE, status |-> "pending",
                    lastUpdated |-> now]
    /\ UNCHANGED <<webVars, pageVars, storeVars, contentVars, toPopup, popupVars, now>>

\* extractClips in the other tab: POST /extract is answered with a job, which the
\* service keeps processing; the pending record and job_<jobId> are stored and
\* jobStarted is sent. A popup that is open, on whatever tab, receives it: its
\* listener refreshes lastUpdated of the message's video, reads timeout_<videoId> of
\* the message's video, calls clearTimeout on the id found and removes the key
OtherJobStarted ==
    /\ otherTab.extracting
    /\ jobKeys' = jobKeys \cup {[jobId |-> OtherJobId, prompt |-> OtherPrompt]}
    /\ IF popupOpen
          THEN /\ timers' = IF otherTab.timeoutKey # 0
                               THEN {tm \in timers : tm.id # otherTab.timeoutKey}
                               ELSE timers
               /\ otherTab' = [timeoutKey |-> 0, extracting |-> FALSE,
                               status |-> "pending", lastUpdated |-> now]
          ELSE /\ timers' = timers
               /\ otherTab' = [otherTab EXCEPT !.extracting = FALSE, !.lastUpdated = -1]
    /\ UNCHANGED <<webVars, pageVars, rec, promptKey, timeoutKey, contentVars, toPopup,
                   popupOpen, ui, tasks, nextTimerId, submissions, now>>

\* the extension with a second tab whose video has an extraction under way
TabsNext ==
    \/ ContentSteps(TwoClipsFound)
    \/ PopupInitSteps
    \/ SubmitSteps(TwoClipsFound)
    \/ StaleSteps
    \/ MessageSteps
    \/ PopupClose
    \/ OtherTabSubmit
    \/ OtherJobStarted

SpecTabs == ExtInit /\ [][TabsNext]_vars

\* ------------------------------------------------------------------------
\* Either client: the web page's hook or the extension
\* ------------------------------------------------------------------------
PollNext ==
    \/ ExtIdle /\ HookNext
    \/ HookIdle /\ ClipsNext

SpecPoll == HookInit /\ [][PollNext]_vars

\* ------------------------------------------------------------------------
\* Properties: polling
\* ------------------------------------------------------------------------
\* C1: with stopPollingOnComplete set, once an effect of useJobStatus has handled a
\* completed or failed response it issues no further getJobStatus call; a chain of
\* pollJobStatus issues a request only if the last response it processed was not
\* completed or failed. So no poll request follows the first terminal response.
C1_NoPollAfterTerminal ==
    [][/\ stopPollingOnComplete =>
            \A r \in inflight' \ inflight : r.resp = "none" => r.effect \notin terminalSeen
       /\ \A j \in 1..MaxJobs :
            (polls'[j].pc = "fetch" /\ polls[j].pc # "fetch") => ~IsTerminal(polls[j].status)
      ]_vars

\* the hook has handled a terminal response, its interval is cleared and no request
\* is outstanding
C1_PollingStopped ==
    /\ stopPollingOnComplete
    /\ currentJobId # 0
    /\ effectId \in terminalSeen
    /\ IsTerminal(data.status)
    /\ ~intervalId
    /\ inflight = {}

\* a poll is live for job j: its chain is live, or extractClips is about to start it
PollingOrStarting(j) == PollLive(j) \/ \E t \in extractions : t.job = j

\* C2: when the popup's initialization finishes on a pending record with a stored
\* jobId (and the store still holds it), polling of that jobId goes on.
C2_InitResumesPolling ==
    [][\A t \in tasks :
          (/\ t.pc = "init2"
           /\ t \notin tasks'
           /\ popupOpen'
           /\ t.videoData.status = "pending"
           /\ t.videoData.jobId # 0
           /\ rec.status = "pending"
           /\ rec.jobId = t.videoData.jobId)
          => PollingOrStarting(t.videoData.jobId)'
      ]_vars

\* no request of a poll chain has been answered
NoPollAnswered == \A j \in 1..MaxJobs : ~polls[j].answered

\* C3: while the record is pending, no poll response has been observed and the popup
\* stays open, an armed staleness timer stays armed until its window has passed, so
\* that the record can be turned to failed when no response arrives.
C3_StaleGuardStaysArmed ==
    [][(popupOpen' /\ rec.status = "pending" /\ NoPollAnswered)
          => \A tm \in timers : tm \in timers' \/ now >= tm.due
      ]_vars

\* C9: processing a completed response never faults, whatever the clips payload: the
\* chain goes on to store the completed record, and a payload that does not parse
\* is normalized to the empty list.
C9_MalformedClipsDegrade ==
    [][\A j \in 1..MaxJobs :
          (/\ polls[j].pc = "get"
           /\ polls'[j].pc \notin {"get", "cancelled"}
           /\ polls[j].status = "completed"
           /\ rec.status # "failed")
          => /\ polls'[j].pc = "setDone"
             /\ (polls[j].clips.t = "string" /\ ~JSONparse(polls[j].clips.v).ok)
                   => polls'[j].clips = Arr(<<>>)
      ]_vars

\* C10: at most one poll chain of the content script is live for the video.
C10_OnePollSession == Cardinality({j \in 1..MaxJobs : PollLive(j)}) <= 1

\* ------------------------------------------------------------------------
\* Properties: playback controller
\* ------------------------------------------------------------------------
\* C4: every clip-end guard attached to the element is the guard of the last mode
\* switch and of the selected clip: after playClip(i) then playClip(j) the guard of
\* clip i is detached and cannot pause the playback of clip j.
C4_OnlyCurrentGuard ==
    \A h \in timeupdateListeners : h.id = Len(switchLog) /\ h.clip = selectedClipIndex

\* clip j plays after a switch from clip i, at a position at or past the end of clip
\* i, and a timeupdate was dispatched there
C4_SwitchedAndPlaying ==
    /\ Len(switchLog) >= 2
    /\ LET i == switchLog[Len(switchLog) - 1]
           j == switchLog[Len(switchLog)]
           pos == calculateClipPositionsInOutput(clips)
       IN /\ i # 0 /\ j # 0 /\ i # j
          /\ currentTime >= pos[i].end
          /\ currentTime < pos[j].end
    /\ loadState = "ready"
    /\ lastTimeUpdate = currentTime
    /\ ~paused

\* C5: in clip mode, a timeupdate observed at a position at or past the end of the
\* selected clip leaves the element paused.
C5_PausedAtClipEnd ==
    [][(/\ TimeUpdate
        /\ selectedClipIndex # 0
        /\ currentTime >= calculateClipPositionsInOutput(clips)[selectedClipIndex].end)
          => paused'
      ]_vars

\* the selected clip was played to its end, resumed or not, and the guard has paused it
C5_StoppedAtEnd ==
    /\ selectedClipIndex # 0
    /\ LET pos == calculateClipPositionsInOutput(clips)[selectedClipIndex]
       IN currentTime >= pos.end /\ currentTime > pos.start
    /\ loadState = "ready"
    /\ lastTimeUpdate = currentTime
    /\ paused

\* ------------------------------------------------------------------------
\* Properties: clip timeline mapper
\* ------------------------------------------------------------------------
\* C6: the positions returned are contiguous: the first starts at 0 and every
\* position ends where the next one starts.
C6_Contiguous ==
    mapped =>
       /\ Len(clipPositions) > 0 => clipPositions[1].start = 0
       /\ \A i \in 1..(Len(clipPositions) - 1) :
             clipPositions[i].end = clipPositions[i + 1].start

\* three clips were mapped, the first two of positive length
C6_ThreeMapped ==
    /\ mapped
    /\ Len(clipPositions) >= 3
    /\ clipPositions[1].duration > 0
    /\ clipPositions[2].duration > 0
    /\ clipPositions[3].start = clipPositions[1].duration + clipPositions[2].duration

\* the sum of end_time - start_time over the first n clips
RECURSIVE SumDurations(_, _)
SumDurations(cs, n) ==
    IF n = 0 THEN 0 ELSE SumDurations(cs, n - 1) + (cs[n].end_time - cs[n].start_time)

\* C7: the result is the prefix sum of the clip durations: one position per clip,
\* start_i the sum of the durations of the clips before i, end_i = start_i + duration_i
\* (so [] maps to [] and [{0,10},{20,25}] to [{0,10},{10,15}]).
C7_PrefixSum ==
    mapped =>
       /\ Len(clipPositions) = Len(clips)
       /\ \A i \in 1..Len(clips) :
             /\ clipPositions[i].start = SumDurations(clips, i - 1)
             /\ clipPositions[i].end =
                   clipPositions[i].start + (clips[i].end_time - clips[i].start_time)

\* the list [{0,10},{20,25}] was mapped to [{0,10},{10,15}]
C7_Example ==
    /\ mapped
    /\ clips = <<Clip(0, 10), Clip(20, 25)>>
    /\ clipPositions = <<[start |-> 0, end |-> 10, duration |-> 10],
                         [start |-> 10, end |-> 15, duration |-> 5]>>

\* C8: no returned position has a negative width, and none starts before the end of
\* the previous one: a clip with end_time - start_time <= 0 is given zero width.
C8_NoNegativeRange ==
    mapped =>
       \A i \in 1..Len(clipPositions) :
          /\ clipPositions[i].end >= clipPositions[i].start
          /\ clipPositions[i].duration >= 0
          /\ i > 1 => clipPositions[i].start >= clipPositions[i - 1].end

\* ------------------------------------------------------------------------
\* Properties: poll sessions
\* ------------------------------------------------------------------------
\* C11: at most one poll request of a job is in flight at any time: the mounted
\* effect of useJobStatus has at most one getJobStatus call that has not resolved,
\* and a chain of pollJobStatus requests only after its previous request resolved.
C11_OnePollInFlight ==
    /\ \A j \in 1..MaxWebJobs :
          Cardinality({r \in inflight : r.effect = effectId /\ r.job = j}) <= 1
    /\ \A j \in 1..MaxJobs :
          polls[j].pc = "fetch" => polls[j].status = "none"

\* C12: after the cleanup of an effect of useJobStatus, a new getJobStatus call is
\* issued only by the mounted effect for the current job, and the response of a call
\* of a cleaned-up effect changes none of data, error and loading.
C12_InertAfterCleanup ==
    [][/\ \A r \in inflight' \ inflight :
             r.resp = "none" => (isActive' /\ r.effect = effectId' /\ r.job = currentJobId')
       /\ \A r \in inflight :
             (r \notin inflight' /\ r.resp # "none" /\ (r.effect # effectId \/ ~isActive))
                => UNCHANGED <<data, error, loading>>
      ]_vars

\* a new job is polled while the terminal response of a call of the previous,
\* cleaned-up effect is about to be delivered
C12_LateResponse ==
    /\ currentJobId # 0
    /\ isActive
    /\ loading
    /\ \E r \in inflight : r.effect < effectId /\ r.job # currentJobId /\ IsTerminal(r.resp)

\* ------------------------------------------------------------------------
\* Properties: the video's record
\* ------------------------------------------------------------------------
\* C13: once the record's status is completed or failed it changes only by a user
\* action: the removal of Start Over, or the first write of an Extract click.
C13_TerminalIsStable ==
    [][(IsTerminal(rec.status) /\ rec'.status # rec.status)
          => \/ [pc |-> "startOver"] \in tasks /\ rec' = NoRec
             \/ \E t \in tasks : t.pc = "click1" /\ t \notin tasks'
      ]_vars

\* C14: while no record is stored for the video (after Start Over), no step of the
\* content script stores one: the record is absent until an Extract click writes it.
C14_AbsentAfterStartOver ==
    [][(rec = NoRec /\ UNCHANGED popupVars) => rec' = NoRec]_vars

\* C15: the step that completes Start Over removes the record, prompt_<videoId> and
\* timeout_<videoId>, leaves the job_ entries as they are, and leaves the popup idle:
\* prompt empty and enabled, Extract enabled, no Start Over button.
C15_StartOverFrame ==
    [][([pc |-> "startOver"] \in tasks /\ [pc |-> "startOver"] \notin tasks' /\ popupOpen')
          => /\ rec' = NoRec
             /\ promptKey' = NoText
             /\ timeoutKey' = 0
             /\ jobKeys' = jobKeys
             /\ ui'.view = "idle"
             /\ ui'.promptValue = ""
             /\ ~ui'.promptDisabled
             /\ ~ui'.extractDisabled
             /\ ~ui'.startOver
      ]_vars

\* Start Over was completed after a submission: nothing is stored for the video but
\* the job's entry, and the popup is idle
C15_StartedOver ==
    /\ popupOpen
    /\ ui.view = "idle"
    /\ submissions > 0
    /\ jobKeys # {}
    /\ rec = NoRec
    /\ promptKey = NoText

\* the last request of job j's poll chain was answered with a non-terminal status and
\* the chain goes on
PollSucceeding(j) ==
    /\ polls[j].pc \in {"get", "timer"}
    /\ polls[j].answered
    /\ polls[j].status \notin {"none", "completed", "failed"}

\* C16: while the poll chain of the pending job is succeeding with a non-terminal
\* status, the staleness callback does not find the record stale: it shows no
\* server-not-responding error and issues no write of a failed record.
C16_GuardSparesLiveJob ==
    [][(/\ rec.status = "pending"
        /\ rec.jobId # 0
        /\ PollSucceeding(rec.jobId)
        /\ popupOpen')
          => ~(\E t \in tasks' \ tasks : t.pc = "stale2")
      ]_vars

\* C18: when a poll tick of the pending job has succeeded with a non-terminal status
\* and the chain arms its next timer, the record's lastUpdated is the time of the tick.
C18_TickRefreshesLastUpdated ==
    [][\A j \in 1..MaxJobs :
          (/\ polls[j].pc = "get"
           /\ polls'[j].pc = "timer"
           /\ rec.status = "pending"
           /\ rec.jobId = j)
          => rec'.lastUpdated = now'
      ]_vars

\* nothing is under way: no extraction, no live poll chain, no message in flight, no
\* popup task and no armed staleness timer
Quiescent ==
    /\ extractions = {}
    /\ \A j \in 1..MaxJobs : ~PollLive(j)
    /\ toPopup = <<>>
    /\ tasks = {}
    /\ timers = {}

\* C17: a record does not stay pending forever: a pending record always has something
\* under way that will change it. Stated for the first staleness window (now = 0), in
\* which no staleness timer can have fired: when the popup is open and initialized
\* and nothing is under way, not even an armed staleness timer, the record of a job
\* is not pending.
C17_NoPendingAtRest ==
    (now = 0 /\ popupOpen /\ ui.clickReady /\ Quiescent /\ rec.jobId # 0)
       => rec.status # "pending"

C19_TerminalCancelsTimers ==
    [][IsTerminal(rec.status)
          => /\ \A j \in 1..MaxJobs :
                   polls[j].pc = "timer" => polls'[j].pc \in {"timer", "cancelled"}
             /\ (timers' # timers /\ popupOpen' /\ UNCHANGED toPopup)
                   => UNCHANGED <<ui, tasks, rec>>
      ]_vars

\* C21: when the popup's initialization ends in the loading state without a pending
\* record of the video (a job_ entry was adopted), no record was read for the video,
\* the store holds exactly one job_ entry, and that job is in flight: its poll chain
\* is live.
C21_AdoptsOnlyInFlightJob ==
    [][\A t \in tasks :
          (/\ t.pc = "init2"
           /\ t \notin tasks'
           /\ popupOpen'
           /\ ui'.view = "loading"
           /\ t.videoData.status # "pending")
          => /\ t.videoData = NoRec
             /\ Cardinality(jobKeys) = 1
             /\ \A k \in jobKeys : PollLive(k.jobId)
      ]_vars

\* C22: in extractClips, after POST /extract succeeded the record is written as
\* {status: pending, jobId of the created job, prompt} and, with the job_ entry
\* stored, the poll chain of that job issues its first request; after POST /extract
\* failed the record is written as {status: failed, prompt, error} with the error
\* text of the failure, and no poll chain is touched.
C22_SubmitOutcome ==
    [][\A t \in extractions :
          /\ (t.pc = "setRec" /\ [t EXCEPT !.pc = "setJob"] \in extractions')
                => rec' = Record("pending", t.prompt, t.job, Undefined, NoText, -1)
          /\ (t.pc = "setJob" /\ [jobId |-> t.job, prompt |-> t.prompt] \in jobKeys' \ jobKeys)
                => /\ polls'[t.job].pc = "fetch"
                   /\ polls'[t.job].prompt = t.prompt
          /\ (t.pc = "errSet" /\ t \notin extractions' /\ (rec' # rec \/ toPopup' # toPopup))
                => /\ rec'.status = "failed"
                   /\ rec'.error = t.error
                   /\ rec'.error \notin {NoText, ""}
                   /\ polls' = polls
      ]_vars

\* extractClips has run to its end after a successful submission: the record is
\* pending with the job's id and the first poll request of that job is outstanding
C22_SubmittedAndPolling ==
    /\ extractions = {}
    /\ rec.status = "pending"
    /\ rec.jobId # 0
    /\ [jobId |-> rec.jobId, prompt |-> rec.prompt] \in jobKeys
    /\ polls[rec.jobId].pc = "fetch"
    /\ ~polls[rec.jobId].answered

\* C23: every failure of the content script's submit or poll is turned into a failed
\* record with a non-empty error and ends the chain. A rejected or non-ok GET goes to
\* the catch block's write; a job reported failed goes to the failed write (or the
\* chain just ends when the stored record is failed already); each of these writes,
\* and the catch block's write of extractClips, stores status failed with a non-empty
\* error, after which the chain is stopped.
C23_FailuresBecomeFailedRecords ==
    [][/\ \A j \in 1..MaxJobs :
             /\ (polls[j].pc = "fetch" /\ polls'[j].pc \notin {"fetch", "get", "cancelled"})
                   => /\ polls'[j].pc = "errSet"
                      /\ polls'[j].error \notin {NoText, ""}
             /\ (polls[j].pc = "get" /\ polls[j].status = "failed"
                    /\ polls'[j].pc \notin {"get", "cancelled"})
                   => \/ polls'[j].pc = "setFail" /\ polls'[j].error \notin {NoText, ""}
                      \/ polls'[j].pc = "stopped" /\ rec.status = "failed"
             /\ (polls[j].pc \in {"setFail", "errSet"}
                    /\ polls'[j].pc \notin {"setFail", "errSet", "cancelled"})
                   => /\ polls'[j].pc = "stopped"
                      /\ rec'.status = "failed"
                      /\ rec'.error = polls[j].error
                      /\ rec'.error \notin {NoText, ""}
       /\ \A t \in extractions :
             (t.pc = "post" /\ t \notin extractions' /\ extractions' # {}
                 /\ \A u \in extractions' : u.pc # "setRec")
                => \E u \in extractions' : u.pc = "errSet" /\ u.error \notin {NoText, ""}
      ]_vars

\* the service reported the job failed without an error_message: the record is failed
\* with the default text and the chain is stopped
C23_FailedJobStored ==
    /\ rec.status = "failed"
    /\ rec.jobId # 0
    /\ rec.error = E_PROCESSING
    /\ polls[rec.jobId].pc = "stopped"
    /\ polls[rec.jobId].status = "failed"

\* C24: a poll that failed (the job id is unknown to the service: getJobStatus throws
\* on the non-ok response) is terminal: once the hook has recorded the error for the
\* mounted job, it issues no further GET /jobs/{id} for it.
C24_NoPollAfterFailedPoll ==
    [][(error /\ isActive /\ currentJobId # 0 /\ currentJobId' = currentJobId)
          => \A r \in inflight' \ inflight : r.resp # "none"
      ]_vars

\* C25: every value stored under the video's key is a VideoRecord: its status is one
\* of pending, completed, failed.
C25_StoredValueIsVideoRecord ==
    rec # NoRec => rec.status \in {"pending", "completed", "failed"}

\* C26: the content script stores each final outcome before it sends the message: the
\* step that completes the write of a completed job stores status completed with the
\* normalized clips and sends nothing yet; the steps that end a chain on a failure
\* store status failed with the error they report, and the message (if a popup
\* exists) carries that same error. A popup initialized from such a record alone shows
\* that outcome: what displayClips makes of a completed record's clips, as the message
\* handler does, and the error text of a failed one.
C26_StoredBeforeSent ==
    [][/\ \A j \in 1..MaxJobs :
             /\ (polls[j].pc = "setDone" /\ polls'[j].pc = "verify")
                   => /\ rec'.status = "completed"
                      /\ rec'.jobId = j
                      /\ rec'.clips = polls[j].clips
                      /\ toPopup' = toPopup
             /\ (polls[j].pc = "verify" /\ polls'[j].pc = "stopped" /\ popupOpen)
                   => /\ Len(toPopup') = Len(toPopup) + 1
                      /\ toPopup'[Len(toPopup')].action = "extractionComplete"
                      /\ toPopup'[Len(toPopup')].clips = polls[j].clips
             /\ (polls[j].pc \in {"setFail", "errSet"} /\ polls'[j].pc = "stopped")
                   => /\ rec'.status = "failed"
                      /\ rec'.error = polls[j].error
                      /\ popupOpen => /\ Len(toPopup') = Len(toPopup) + 1
                                      /\ toPopup'[Len(toPopup')].error = rec'.error
       /\ \A t \in tasks :
             (t.pc = "init2" /\ t \notin tasks' /\ popupOpen')
                => /\ (t.videoData.status = "failed")
                         => ui'.view = "error" /\ ui'.text = t.videoData.error
                   /\ (t.videoData.status = "completed" /\ NonEmptyArray(t.videoData.clips))
                         => ui'.view = ShowClips(ui, t.videoData.clips).view
      ]_vars

\* a popup shows the clips of a finished job from the record the content script
\* stored, without having handled any message about it (the popup's own writes carry
\* a lastUpdated, the content script's do not)
C26_ReconstructedFromStore ==
    /\ popupOpen
    /\ ui.clickReady
    /\ ui.view = "clips"
    /\ toPopup = <<>>
    /\ tasks = {}
    /\ rec.status = "completed"
    /\ rec.lastUpdated = -1
    /\ rec.jobId # 0
    /\ polls[rec.jobId].pc = "stopped"

\* C27: a click on a clip item sends seekTo with the start_time of a clip that is
\* shown, and on receipt the page's video is set to the message's timestamp and plays.
C27_SeeksToClipStart ==
    [][/\ (popupOpen /\ Len(toContent') = Len(toContent) + 1)
             => \E i \in 1..Len(ui.items) :
                   toContent'[Len(toContent')].timestamp
                      = Field(ui.items[i].clip, "start_time")
       /\ (toContent # <<>> /\ toContent' = Tail(toContent) /\ pageVideo.present)
             => /\ pageVideo'.currentTime = Head(toContent).timestamp
                /\ ~pageVideo'.paused
      ]_vars

\* C28: once the JobStatus view is torn down, no listener of playClip or playFullVideo
\* is attached to the media element: no clip-end guard, no ready-to-play handler and
\* no pending metadata-ready handler.
C28_NoListenerAfterTeardown ==
    ~viewMounted => /\ timeupdateListeners = {}
                /\ canplayListeners = {}
                /\ metadataListeners = <<>>

\* the start position of the mode of the last switch
ModeStart ==
    IF selectedClipIndex = 0 THEN 0
    ELSE calculateClipPositionsInOutput(clips)[selectedClipIndex].start

\* C29, as the code orders a mode switch: the call itself detaches the previous guard,
\* attaches the guard of a clip at once, leaves the element paused and reloading with
\* a metadata-ready listener for the mode's start; the position is set when the
\* metadata is ready, the element still paused; playback resumes only once the
\* element is ready to play.
C29_SwitchOrderOfCode ==
    [][/\ (Len(switchLog') = Len(switchLog) + 1)
             => /\ timeupdateListeners' =
                      (IF selectedClipIndex' = 0 THEN {} ELSE {clipEndHandler'})
                /\ paused'
                /\ loadState' = "loading"
                /\ metadataListeners' # <<>>
                /\ metadataListeners'[Len(metadataListeners')].start = ModeStart'
       /\ (loadState = "loading" /\ loadState' = "metadata")
             => /\ currentTime' \in SeekOutcomes(ModeStart)
                /\ paused'
       /\ (paused /\ ~paused') => loadState' = "ready"
      ]_vars

\* a clip plays from its start after a switch made while another mode was playing
C29_SwitchedWhilePlaying ==
    /\ Len(switchLog) >= 2
    /\ selectedClipIndex # 0
    /\ loadState = "ready"
    /\ ~paused
    /\ currentTime = ModeStart
    /\ clipEndHandler \in timeupdateListeners

\* C29, as stated: the clip-end guard is attached only after the position was set on
\* the metadata-ready signal, so no guard is attached while the source is reloading.
C29_GuardAttachedAfterSeek ==
    loadState = "loading" => timeupdateListeners = {}

\* C30: whatever playClip and playFullVideo calls were made, at most one clip-end
\* guard and at most one ready-to-play handler are attached to the element, and a
\* clip-end guard is attached exactly when a clip is selected.
C30_ModesExclusive ==
    /\ Cardinality(timeupdateListeners) <= 1
    /\ Cardinality(canplayListeners) <= 1
    /\ (timeupdateListeners # {}) <=> (selectedClipIndex # 0)
    /\ timeupdateListeners # {} => timeupdateListeners = {clipEndHandler}

\* full-video mode was entered from a clip while the clip's reload was still under
\* way: no guard is attached and only the last ready-to-play handler is
C30_FullVideoAfterClip ==
    /\ Len(switchLog) >= 2
    /\ switchLog[Len(switchLog) - 1] # 0
    /\ selectedClipIndex = 0
    /\ timeupdateListeners = {}
    /\ canplayListeners = {canPlayHandler}
    /\ Len(metadataListeners) >= 2

\* C31: when the element signals ready-to-play after a mode switch, the handler of
\* that switch leaves a position that is at the intended start untouched and sets a
\* position that is off to the intended start, then resumes playback and detaches
\* itself; no handler runs more than once for its mode switch, however often the
\* element signals ready-to-play.
C31_CorrectedOncePerSwitch ==
    [][/\ \A id \in 1..MaxSwitches : canPlayRuns'[id] <= 1
       /\ \A h \in canplayListeners :
             canPlayRuns'[h.id] > canPlayRuns[h.id]
                => /\ SeekSucceeded(h, currentTime) => currentTime' = currentTime
                   /\ ~SeekSucceeded(h, currentTime) => currentTime' = Seek(h.start)
                   /\ ~paused'
                   /\ h \notin canplayListeners'
      ]_vars

\* a clip that does not start at 0 plays from its start: the handler of the last
\* switch has run once and is detached, the handler of the switch before it never ran
C31_HandlerRanOnce ==
    /\ Len(switchLog) >= 2
    /\ selectedClipIndex # 0
    /\ ModeStart > 0
    /\ canPlayRuns[Len(switchLog)] = 1
    /\ canPlayRuns[Len(switchLog) - 1] = 0
    /\ canplayListeners = {}
    /\ loadState = "ready"
    /\ currentTime = ModeStart
    /\ ~paused

\* the guard of the mode of the last switch: none in full-video mode
ModeGuards ==
    IF selectedClipIndex = 0 THEN {}
    ELSE {[id |-> Len(switchLog), clip |-> selectedClipIndex,
           end |-> calculateClipPositionsInOutput(clips)[selectedClipIndex].end]}

\* C38: when several mode switches were made before the element signalled
\* metadata-ready, the metadata-ready signal asks for the start of the last mode
\* selected, and once ready-to-play is handled the position is that start and the
\* only guard attached is the guard of that mode.
C38_LastSwitchWins ==
    [][/\ (loadState = "loading" /\ loadState' = "metadata" /\ Len(metadataListeners) >= 2)
             => currentTime' \in SeekOutcomes(ModeStart)
       /\ (loadState = "metadata" /\ loadState' = "ready" /\ metadataBatch >= 2)
             => /\ currentTime' = Seek(ModeStart)
                /\ timeupdateListeners' = ModeGuards
                /\ canplayListeners' = {}
      ]_vars

\* two switches to different modes were made before metadata-ready; both signals
\* were handled and the clip selected last is at its start, under its own guard
C38_SecondOfTwoAtStart ==
    /\ Len(switchLog) >= 2
    /\ switchLog[Len(switchLog) - 1] # switchLog[Len(switchLog)]
    /\ selectedClipIndex # 0
    /\ ModeStart > 0
    /\ metadataBatch >= 2
    /\ loadState = "ready"
    /\ canPlayRuns[Len(switchLog)] = 1
    /\ currentTime = ModeStart
    /\ timeupdateListeners = ModeGuards

\* ------------------------------------------------------------------------
\* Properties: concurrent writers of the video record
\* ------------------------------------------------------------------------
\* C32: the write with which the popup refreshes lastUpdated on an incoming message
\* changes nothing but lastUpdated: the status, jobId, clips and error the store holds
\* when the write lands, the content script's latest ones, are still there after it.
C32_RefreshChangesOnlyLastUpdated ==
    [][\A t \in tasks :
          (/\ t.pc = "msg2"
           /\ t \notin tasks'
           /\ t.message.action # "extractionError"
           /\ t.write # NoRec)
          => /\ rec'.status = rec.status
             /\ rec'.jobId = rec.jobId
             /\ rec'.clips = rec.clips
             /\ rec'.error = rec.error
      ]_vars

\* a list in which every clip has a numeric start_time, a numeric end_time and a
\* string text
WellFormedClips(x) ==
    /\ IsArray(x)
    /\ \A i \in 1..Len(x.v) :
          /\ x.v[i].t = "object"
          /\ Field(x.v[i], "start_time").t = "number"
          /\ Field(x.v[i], "end_time").t = "number"
          /\ Field(x.v[i], "text").t = "string"

\* C33: the clips field of every completed record the content script writes is a
\* list of clips with a numeric start_time, a numeric end_time and a string text,
\* whether the service sent a structured list or a string-encoded one.
C33_CompletedClipsWellFormed ==
    [][\A j \in 1..MaxJobs :
          (polls[j].pc = "setDone" /\ polls'[j].pc = "verify")
             => rec'.status = "completed" /\ WellFormedClips(rec'.clips)
      ]_vars

\* ------------------------------------------------------------------------
\* Properties: the web hook's snapshot
\* ------------------------------------------------------------------------
\* C34: with stopPollingOnComplete enabled, a completed or failed snapshot held in
\* data is never replaced by a snapshot of the same job whose status is not
\* terminal, in whatever order the poll responses arrive.
C34_TerminalSnapshotStays ==
    [][(/\ stopPollingOnComplete
        /\ data.job # 0
        /\ IsTerminal(data.status)
        /\ data'.job = data.job)
          => IsTerminal(data'.status)
      ]_vars

\* ------------------------------------------------------------------------
\* Properties: two jobs of one video
\* ------------------------------------------------------------------------
\* C35: the completed record of a video is written by the poll chain of the job
\* submitted last, and the armed timer of a job's chain is cancelled only by a chain
\* of that job or of a later one: the chain of an earlier job neither overwrites the
\* record nor stops the polling of the later job.
C35_LatestJobWins ==
    [][\A j \in 1..MaxJobs :
          /\ (polls[j].pc = "setDone" /\ polls'[j].pc = "verify")
                => /\ j = jobsCreated
                   /\ rec'.jobId = jobsCreated
          /\ (polls[j].pc = "timer" /\ polls'[j].pc = "cancelled")
                => \E k \in j..MaxJobs : polls[k].pc # "fetch" /\ polls'[k].pc = "fetch"
      ]_vars

\* ------------------------------------------------------------------------
\* Properties: the popup's way out of a terminal state
\* ------------------------------------------------------------------------
\* the popup shows the outcome of a finished extraction: clips, a "no clips" status
\* or an error other than the refusal of an empty prompt
ShowsTerminalOutcome ==
    /\ popupOpen
    /\ \/ ui.view \in {"clips", "noclips", "novalidclips"}
       \/ ui.view = "error" /\ ui.text # E_PROMPT

\* C36: whenever the popup shows a terminal outcome, the Start Over button is present
\* or the prompt input and the Extract button are both enabled.
C36_TerminalStateHasExit ==
    ShowsTerminalOutcome
        => \/ ui.startOver
           \/ ~ui.promptDisabled /\ ~ui.extractDisabled

\* ------------------------------------------------------------------------
\* Properties: staleness timers and messages of other videos
\* ------------------------------------------------------------------------
\* C37: a message about one video cancels only a staleness timer armed for that
\* video: the popup's timers, all armed for the video of its own tab, are left alone
\* by the handling of a message about the other tab's video, whatever timer id is
\* stored under that video's timeout key.
C37_OtherVideoSparesTimers ==
    [][(otherTab.extracting /\ ~otherTab'.extracting) => timers' = timers]_vars

\* ------------------------------------------------------------------------
\* Properties: error and loading of the web hook
\* ------------------------------------------------------------------------
\* the polls of the mounted, active effect that have not resolved
OutstandingPolls == {r \in inflight : SessionActive(r.effect, effectId, isActive)}

\* C39: when a poll of the active session throws, error is set and data keeps the
\* last snapshot; when a poll of the active session succeeds, error is cleared; and
\* loading is false whenever no poll of the active session is outstanding.
C39_ErrorAndLoading ==
    [][/\ \A r \in OutstandingPolls :
             (r \notin inflight' /\ r.resp = "error") => error' /\ data' = data
       /\ \A r \in OutstandingPolls :
             (r \notin inflight' /\ r.resp \notin {"none", "error"})
                => ~error' /\ data' = [job |-> r.job, status |-> r.resp]
       /\ (OutstandingPolls' = {}) => ~loading'
      ]_vars

\* a poll failed after a successful one: the error is set, the snapshot of the
\* processing job is still held, nothing is outstanding and loading is off
C39_ErrorWithSnapshot ==
    /\ isActive
    /\ error
    /\ data = [job |-> currentJobId, status |-> "processing"]
    /\ OutstandingPolls = {}
    /\ ~loading
    /\ pollsIssued >= 2

====
